---- MODULE Spec2Model ----
(***************************************************************************)
(* Model of the synthesis-loop controllers of riscv_greenthumb:            *)
(*   src/riscv/auto_synthesis.py    AutoSynthesizer (heuristic generator)  *)
(*   src/riscv/gemini_synthesis.py  LLMSynthesizer  (model-driven)         *)
(* Text is a sequence of one-character strings, so that formatting,        *)
(* splitting and regular-expression matching are computed as the code      *)
(* computes them.                                                          *)
(***************************************************************************)
EXTENDS Integers, Sequences, FiniteSets, TLC

(***************************************************************************)
(* Bounds of the model.                                                    *)
(***************************************************************************)
\* largest configured max_iterations explored
MaxIter == 2
\* largest configured min_length / max_length explored
MaxLen == 2
\* largest number of lines in a response of the generative service
MaxRespLines == 2
\* largest max_iterations of the loop when only its counter is followed
MaxPasses == 12
\* most test failures a feedback text reports
MaxFailures == 6

(***************************************************************************)
(* Characters and text.                                                    *)
(***************************************************************************)
LowerSeq == <<"a","b","c","d","e","f","g","h","i","j","k","l","m",
              "n","o","p","q","r","s","t","u","v","w","x","y","z">>

UpperSeq == <<"A","B","C","D","E","F","G","H","I","J","K","L","M",
              "N","O","P","Q","R","S","T","U","V","W","X","Y","Z">>

Range(f) == {f[i] : i \in DOMAIN f}

LowerCh == Range(LowerSeq)

UpperCh == Range(UpperSeq)

DigitCh == {"0","1","2","3","4","5","6","7","8","9"}

\* \s of the re module (the characters that occur in the modelled text)
SpaceCh == {" ", "\t"}

\* \w of the re module
WordCh == LowerCh \cup UpperCh \cup DigitCh \cup {"_"}

\* str.lower() on one character
LowerOf(c) ==
    IF c \in UpperCh
    THEN LowerSeq[CHOOSE i \in DOMAIN UpperSeq : UpperSeq[i] = c]
    ELSE c

\* str.lower()
Lower(s) == [i \in DOMAIN s |-> LowerOf(s[i])]

RECURSIVE LStrip(_)
LStrip(s) == IF s # <<>> /\ Head(s) \in SpaceCh THEN LStrip(Tail(s)) ELSE s

RECURSIVE RStrip(_)
RStrip(s) ==
    IF s # <<>> /\ s[Len(s)] \in SpaceCh
    THEN RStrip(SubSeq(s, 1, Len(s) - 1)) ELSE s

\* str.strip()
Strip(s) == RStrip(LStrip(s))

\* str.rstrip(',')
RECURSIVE RStripComma(_)
RStripComma(s) ==
    IF s # <<>> /\ s[Len(s)] = ","
    THEN RStripComma(SubSeq(s, 1, Len(s) - 1)) ELSE s

\* str.split(): the maximal runs of non-whitespace characters, in order
RECURSIVE SplitWS(_)
SplitWS(s) ==
    LET t == LStrip(s) IN
    IF t = <<>> THEN <<>>
    ELSE LET stops == {i \in 1..Len(t) : t[i] \in SpaceCh}
             e == IF stops = {} THEN Len(t) + 1
                  ELSE CHOOSE i \in stops : \A j \in stops : i <= j
         IN <<SubSeq(t, 1, e - 1)>> \o SplitWS(SubSeq(t, e, Len(t)))

\* s.split(c)[0]: the text before the first occurrence of c
Before(s, c) ==
    LET hits == {i \in 1..Len(s) : s[i] = c} IN
    IF hits = {} THEN s
    ELSE SubSeq(s, 1, (CHOOSE i \in hits : \A j \in hits : i <= j) - 1)

\* s.startswith(p)
StartsWith(s, p) == Len(s) >= Len(p) /\ SubSeq(s, 1, Len(p)) = p

\* ', '.join of three operands after a mnemonic: f"{inst} {a}, {b}, {c}"
Fmt3(inst, a, b, c) == inst \o <<" ">> \o a \o <<",", " ">> \o b \o <<",", " ">> \o c

\* f"{inst} {a}, {b}"
Fmt2(inst, a, b) == inst \o <<" ">> \o a \o <<",", " ">> \o b

(***************************************************************************)
(* Regular expressions: a pattern is a sequence of elements, each a        *)
(* character class with a quantifier "1" (exactly one), "?" or "*".        *)
(* X+ is written X X*.                                                     *)
(***************************************************************************)
One(cs) == << [cs |-> cs, q |-> "1"] >>

Opt(cs) == << [cs |-> cs, q |-> "?"] >>

Star(cs) == << [cs |-> cs, q |-> "*"] >>

Plus(cs) == One(cs) \o Star(cs)

\* a literal word, character by character
Lit(w) == [i \in DOMAIN w |-> [cs |-> {w[i]}, q |-> "1"]]

\* whether elements i.. of pattern p match a prefix of s[j..]
RECURSIVE MatchFrom(_, _, _, _)
MatchFrom(p, i, s, j) ==
    IF i > Len(p) THEN TRUE
    ELSE LET e == p[i]
             here == j <= Len(s) /\ s[j] \in e.cs
         IN CASE e.q = "1" -> here /\ MatchFrom(p, i + 1, s, j + 1)
              [] e.q = "?" -> MatchFrom(p, i + 1, s, j)
                              \/ (here /\ MatchFrom(p, i + 1, s, j + 1))
              [] OTHER     -> MatchFrom(p, i + 1, s, j)
                              \/ (here /\ MatchFrom(p, i, s, j + 1))

\* pattern.match(s): anchored at the start
ReMatch(p, s) == MatchFrom(p, 1, s, 1)

\* re.search(p, s) for an alternation ps of patterns: a match at any position
ReSearch(ps, s) == \E p \in ps : \E j \in 1..(Len(s) + 1) : MatchFrom(p, 1, s, j)

(***************************************************************************)
(* Mnemonics and registers, as text.                                       *)
(***************************************************************************)
W_add == <<"a","d","d">>
W_addi == <<"a","d","d","i">>
W_sub == <<"s","u","b">>
W_and == <<"a","n","d">>
W_andi == <<"a","n","d","i">>
W_or == <<"o","r">>
W_ori == <<"o","r","i">>
W_xor == <<"x","o","r">>
W_xori == <<"x","o","r","i">>
W_sll == <<"s","l","l">>
W_srl == <<"s","r","l">>
W_sra == <<"s","r","a">>
W_slli == <<"s","l","l","i">>
W_srli == <<"s","r","l","i">>
W_srai == <<"s","r","a","i">>
W_not == <<"n","o","t">>
W_mul == <<"m","u","l">>
W_slt == <<"s","l","t">>
W_sltu == <<"s","l","t","u">>
R_x0 == <<"x","0">>
R_x1 == <<"x","1">>
R_x2 == <<"x","2">>
R_x3 == <<"x","3">>
R_x4 == <<"x","4">>
R_x5 == <<"x","5">>
R_x6 == <<"x","6">>
R_x7 == <<"x","7">>
R_x8 == <<"x","8">>
R_x9 == <<"x","9">>
R_x10 == <<"x","1","0">>
R_x11 == <<"x","1","1">>

\* str(n) for the immediates the generator formats
RECURSIVE Dec(_)
Dec(n) ==
    IF n < 0 THEN <<"-">> \o Dec(0 - n)
    ELSE IF n < 10 THEN SubSeq(<<"0","1","2","3","4","5","6","7","8","9">>, n + 1, n + 1)
    ELSE Dec(n \div 10) \o Dec(n % 10)

(***************************************************************************)
(* is_noop (gemini_synthesis.py): five re.search patterns on the           *)
(* stripped, lower-cased instruction.                                      *)
(***************************************************************************)
\* \s+\w+,\s*\w+,\s*  (the operand part shared by the five patterns)
OperandsRe == Plus(SpaceCh) \o Plus(WordCh) \o Lit(<<",">>) \o Star(SpaceCh)
              \o Plus(WordCh) \o Lit(<<",">>) \o Star(SpaceCh)

\* (srli|slli|srai)\s+\w+,\s*\w+,\s*0
NoopShiftImm == {Lit(w) \o OperandsRe \o Lit(<<"0">>) : w \in {W_srli, W_slli, W_srai}}

\* addi?\s+\w+,\s*\w+,\s*(x0|0)
NoopAdd == {Lit(W_add) \o Opt({"i"}) \o OperandsRe \o Lit(z) : z \in {R_x0, <<"0">>}}

\* andi\s+\w+,\s*\w+,\s*-1
NoopAndi == {Lit(W_andi) \o OperandsRe \o Lit(<<"-","1">>)}

\* (ori|xori)\s+\w+,\s*\w+,\s*0
NoopOrXorImm == {Lit(w) \o OperandsRe \o Lit(<<"0">>) : w \in {W_ori, W_xori}}

\* (sll|srl|sra)\s+\w+,\s*\w+,\s*x0
NoopShiftReg == {Lit(w) \o OperandsRe \o Lit(R_x0) : w \in {W_sll, W_srl, W_sra}}

is_noop(instruction) ==
    LET inst == Lower(Strip(instruction)) IN
    \/ ReSearch(NoopShiftImm, inst)
    \/ ReSearch(NoopAdd, inst)
    \/ ReSearch(NoopAndi, inst)
    \/ ReSearch(NoopOrXorImm, inst)
    \/ ReSearch(NoopShiftReg, inst)

(***************************************************************************)
(* generate_proposal (auto_synthesis.py).  Every random.choice is a        *)
(* nondeterministic choice, so the operator yields the set of all outcomes *)
(* the call can have; an outcome is a proposal or an uncaught exception.   *)
(***************************************************************************)
Emit(line) == [ok |-> TRUE, lines |-> <<line>>]

Nothing == [ok |-> TRUE, lines |-> <<>>]

\* an exception leaves generate_proposal (random.choice of an empty list,
\* None.split): no proposal is returned
Raise == [ok |-> FALSE, lines |-> <<>>]

temp_regs == <<R_x4, R_x5, R_x6, R_x7, R_x8, R_x9, R_x10, R_x11>>

Min(a, b) == IF a <= b THEN a ELSE b

Max(a, b) == IF a >= b THEN a ELSE b

\* temp_regs[i % len(temp_regs)], i counted from 0
TempAt(i) == temp_regs[(i % Len(temp_regs)) + 1]

\* [src1, src2] + temp_regs[:k]
SrcAndTemps(c, k) == {c.src1, c.src2} \cup {temp_regs[j] : j \in 1..Min(k, Len(temp_regs))}

Bin5 == {W_add, W_sub, W_and, W_or, W_xor}

ShiftImm3 == {W_slli, W_srli, W_srai}

\* the operand names parsed from the target text, or the defaults
TargetRegs(target) ==
    LET parts == SplitWS(target) IN
    IF Len(parts) >= 4
    THEN [dst |-> RStripComma(parts[2]), src1 |-> RStripComma(parts[3]), src2 |-> parts[4]]
    ELSE [dst |-> R_x1, src1 |-> R_x2, src2 |-> R_x3]

\* target_len = min(max_len, max(min_len, min_len + iteration))
TargetLen(min_len, max_len, iteration) == Min(max_len, Max(min_len, min_len + iteration))

\* strategy 0: chain operations on inputs
Step0(c, i) ==
    IF c.allowed = <<>> THEN {Raise}
    ELSE UNION {
      LET rd == IF i = c.n - 1 THEN c.dst ELSE TempAt(i)
          RS1 == IF i < 2 THEN {c.src1} ELSE SrcAndTemps(c, i)
          RS2 == IF i < 2 THEN {c.src2} ELSE SrcAndTemps(c, i)
      IN  IF inst \in Bin5 \cup {W_sll, W_srl, W_sra, W_mul}
          THEN {Emit(Fmt3(inst, rd, rs1, rs2)) : rs1 \in RS1, rs2 \in RS2}
          ELSE IF inst = W_not
          THEN {Emit(Fmt2(W_not, rd, rs1)) : rs1 \in RS1}
          ELSE IF inst \in ShiftImm3
          THEN {Emit(Fmt3(inst, rd, rs1, Dec(amt))) : rs1 \in RS1, amt \in {1, 2, 4, 8, 16, 31}}
          ELSE IF inst \in {W_andi, W_ori, W_xori}
          THEN {Emit(Fmt3(inst, rd, rs1, Dec(imm))) :
                    rs1 \in RS1, imm \in {1, 3, 7, 15, 31, 63, 127, 255}}
          ELSE IF inst = W_addi
          THEN {Emit(Fmt3(inst, rd, rs1, Dec(imm))) : rs1 \in RS1, imm \in {0, 1, -1, 2, 4, 8}}
          ELSE {Nothing}
      : inst \in Range(c.allowed)}

\* strategy 1: build from zero (the loop body; i >= 1)
Step1(c, i) ==
    LET cand == {x \in Range(c.allowed) : x \in {W_add, W_or, W_xor, W_slli, W_srli, W_and}} IN
    IF cand = {} THEN {Raise}
    ELSE UNION {
      IF inst \in {W_slli, W_srli}
      THEN {Emit(Fmt3(inst, c.dst, c.dst, Dec(amt))) : amt \in {1, 2, 4}}
      ELSE {Emit(Fmt3(inst, c.dst, c.dst, src)) : src \in {c.src1, c.src2}}
      : inst \in cand}

\* strategy 2: temporary computation
Step2(c, i) ==
    IF c.allowed = <<>> THEN {Raise}
    ELSE UNION {
      IF i = 0
      THEN IF inst \in Bin5 THEN {Emit(Fmt3(inst, temp_regs[1], c.src1, c.src2))}
           ELSE IF inst \in {W_slli, W_srli}
           THEN {Emit(Fmt3(inst, temp_regs[1], c.src1, Dec(amt))) : amt \in {1, 2, 4}}
           ELSE {Nothing}
      ELSE IF i < c.n - 1
      THEN LET prev == TempAt(i - 1)
               curr == TempAt(i)
           IN  IF inst \in Bin5
               THEN {Emit(Fmt3(inst, curr, prev, src)) : src \in {c.src1, c.src2, prev}}
               ELSE IF inst \in {W_slli, W_srli}
               THEN {Emit(Fmt3(inst, curr, prev, Dec(amt))) : amt \in {1, 2, 4}}
               ELSE IF inst = W_not THEN {Emit(Fmt2(W_not, curr, prev))}
               ELSE {Nothing}
      ELSE LET last == TempAt(i - 1) IN
           IF inst \in Bin5 THEN {Emit(Fmt3(inst, c.dst, last, c.src2))}
           ELSE {Emit(Fmt3(W_add, c.dst, last, R_x0))}
      : inst \in Range(c.allowed)}

\* strategy 3: shift-heavy approach
Step3(c, i) ==
    LET shift_ops == {x \in Range(c.allowed) :
                         x \in {W_sll, W_srl, W_sra, W_slli, W_srli, W_srai}}
        other_ops == {x \in Range(c.allowed) : x \in Bin5}
        rd == IF i < c.n - 1 THEN TempAt(i) ELSE c.dst
    IN  IF i % 2 = 0 /\ shift_ops # {}
        THEN UNION {
          LET rs == IF i = 0 THEN c.src1 ELSE TempAt(i - 1) IN
          IF inst[Len(inst)] = "i"
          THEN {Emit(Fmt3(inst, rd, rs, Dec(amt))) : amt \in {1, 2, 4, 8}}
          ELSE {Emit(Fmt3(inst, rd, rs, R_x0))}
          : inst \in shift_ops}
        ELSE IF other_ops # {}
        THEN UNION {
          LET rs1 == IF i = 0 THEN c.src2 ELSE TempAt(i - 1) IN
          {Emit(Fmt3(inst, rd, rs1, rs2)) : rs2 \in {c.src1, c.src2}}
          : inst \in other_ops}
        ELSE {Nothing}

\* strategy 4: combine both inputs differently
Step4(c, i) ==
    IF c.allowed = <<>> THEN {Raise}
    ELSE UNION {
      LET use_both == (i % 3 = 0)
          rd == IF i = c.n - 1 THEN c.dst ELSE TempAt(i)
      IN  IF use_both /\ inst \in Bin5 \cup {W_mul}
          THEN {Emit(Fmt3(inst, rd, c.src1, c.src2))}
          ELSE IF inst \in ShiftImm3
          THEN {Emit(Fmt3(inst, rd, rs, Dec(amt))) :
                    rs \in SrcAndTemps(c, i), amt \in {1, 2, 4, 8, 16}}
          ELSE IF inst \in {W_add, W_or, W_xor}
          THEN {Emit(Fmt3(inst, rd, rs, R_x0)) : rs \in SrcAndTemps(c, i)}
          ELSE {Nothing}
      : inst \in Range(c.allowed)}

\* strategy 5: random exploration
Step5(c, i) ==
    IF c.allowed = <<>> THEN {Raise}
    ELSE UNION {
      LET RD == IF i = c.n - 1 THEN {c.dst} ELSE Range(temp_regs)
          available == SrcAndTemps(c, i)
      IN  IF inst \in Bin5 \cup {W_sll, W_srl, W_sra, W_mul}
          THEN {Emit(Fmt3(inst, rd, rs1, rs2)) :
                    rd \in RD, rs1 \in available, rs2 \in available}
          ELSE IF inst = W_not
          THEN {Emit(Fmt2(W_not, rd, rs)) : rd \in RD, rs \in available}
          ELSE IF inst \in ShiftImm3
          THEN {Emit(Fmt3(inst, rd, rs, Dec(amt))) :
                    rd \in RD, rs \in available, amt \in {1, 2, 4, 8}}
          ELSE {Nothing}
      : inst \in Range(c.allowed)}

\* strategy = iteration % 6
Strategy(iteration) == iteration % 6

StrategyStep(strategy, c, i) ==
    CASE strategy = 0 -> Step0(c, i)
      [] strategy = 1 -> Step1(c, i)
      [] strategy = 2 -> Step2(c, i)
      [] strategy = 3 -> Step3(c, i)
      [] strategy = 4 -> Step4(c, i)
      [] OTHER        -> Step5(c, i)

\* the for loop of a strategy over i = lo .. hi-1: all outcomes
RECURSIVE StrategyLoop(_, _, _, _)
StrategyLoop(strategy, c, i, hi) ==
    IF i >= hi THEN {Nothing}
    ELSE UNION {
      IF ~a.ok THEN {Raise}
      ELSE {IF r.ok THEN [ok |-> TRUE, lines |-> a.lines \o r.lines] ELSE Raise :
                r \in StrategyLoop(strategy, c, i + 1, hi)}
      : a \in StrategyStep(strategy, c, i)}

\* the padding instruction f"add x4, {src1}, x0"
PadLine(c) == Fmt3(W_add, R_x4, c.src1, R_x0)

\* while len(proposal) < min_len: proposal.insert(0, pad)
RECURSIVE PadTo(_, _, _)
PadTo(lines, min_len, pad) ==
    IF Len(lines) < min_len THEN PadTo(<<pad>> \o lines, min_len, pad) ELSE lines

\* fault: the slice keeps the last max_len elements, [-max_len:]
Truncate_last(lines, max_len) ==
    SubSeq(lines, Len(lines) - Min(Len(lines), max_len) + 1, Len(lines))

\* fault: the slice [:max_len] is left out
Truncate_none(lines, max_len) == lines

\* proposal[:max_len] for max_len >= 0
Truncate(lines, max_len) == SubSeq(lines, 1, Min(Len(lines), max_len))

\* the proposal built by the selected strategy, before padding
Constructed(strategy, c) ==
    CASE strategy = 1 ->
           {IF r.ok THEN [ok |-> TRUE, lines |-> <<Fmt3(W_add, c.dst, R_x0, R_x0)>> \o r.lines]
            ELSE Raise : r \in StrategyLoop(1, c, 1, c.n)}
      [] strategy = 2 -> StrategyLoop(2, c, 0, Min(c.n, Len(temp_regs) + 1))
      [] OTHER -> StrategyLoop(strategy, c, 0, c.n)

\* info: [hasTarget, target, allowed, min_length, max_length, iteration]
generate_proposal(info) ==
    IF ~info.hasTarget THEN {Raise}
    ELSE LET regs == TargetRegs(info.target)
             c == [allowed |-> info.allowed, dst |-> regs.dst, src1 |-> regs.src1,
                   src2 |-> regs.src2,
                   n |-> TargetLen(info.min_length, info.max_length, info.iteration)]
         IN {IF r.ok
             THEN [ok |-> TRUE,
                   lines |-> Truncate(PadTo(r.lines, info.min_length, PadLine(c)),
                                      info.max_length)]
             ELSE Raise
             : r \in Constructed(Strategy(info.iteration), c)}

(***************************************************************************)
(* extract_instructions and filter_noops (gemini_synthesis.py).            *)
(* A response is the sequence of its lines.                                *)
(***************************************************************************)
\* ^\s*[a-z]+\s+x\d+\s*,
riscv_pattern == Star(SpaceCh) \o Plus(LowerCh) \o Plus(SpaceCh) \o Lit(<<"x">>)
                 \o Plus(DigitCh) \o Star(SpaceCh) \o Lit(<<",">>)

\* 'abcdefghijklmnopqrstuvwxyz0123456789 ,x-'
InstructionAlphabet == LowerCh \cup DigitCh \cup {" ", ",", "-"}

\* the backquote character (written as a word: the lexer takes no backquote in a string)
BQ == "backquote"

\* the code-fence marker: three backquotes
Fence == <<BQ, BQ, BQ>>

\* the comment-stripping of one line: ';' first, then '#'
StripComments(line) ==
    LET a == IF ";" \in Range(line) THEN Strip(Before(line, ";")) ELSE line
    IN  IF "#" \in Range(a) THEN Strip(Before(a, "#")) ELSE a

RECURSIVE ExtractFrom(_, _)
ExtractFrom(lines, i) ==
    IF i > Len(lines) THEN <<>>
    ELSE LET stripped == Strip(lines[i]) IN
         IF StartsWith(stripped, Fence) THEN ExtractFrom(lines, i + 1)
         ELSE LET line == StripComments(stripped) IN
              IF line = <<>> THEN ExtractFrom(lines, i + 1)
              ELSE IF ~ReMatch(riscv_pattern, line) THEN ExtractFrom(lines, i + 1)
              ELSE IF \E k \in DOMAIN line : LowerOf(line[k]) \notin InstructionAlphabet
              THEN <<>>
              ELSE <<line>> \o ExtractFrom(lines, i + 1)

extract_instructions(response) == ExtractFrom(response, 1)

\* fault: the instruction after a removed one is not examined (removal from
\* the list being iterated)
RECURSIVE FilterFrom_skipnext(_, _)
FilterFrom_skipnext(instructions, i) ==
    IF i > Len(instructions) THEN <<>>
    ELSE IF is_noop(instructions[i])
         THEN IF i + 1 > Len(instructions) THEN <<>>
              ELSE <<instructions[i + 1]>> \o FilterFrom_skipnext(instructions, i + 2)
    ELSE <<instructions[i]>> \o FilterFrom_skipnext(instructions, i + 1)

\* fault: kept instructions are inserted at the front, filtered.insert(0, inst)
RECURSIVE FilterFrom_front(_, _)
FilterFrom_front(instructions, i) ==
    IF i > Len(instructions) THEN <<>>
    ELSE IF is_noop(instructions[i]) THEN FilterFrom_front(instructions, i + 1)
    ELSE FilterFrom_front(instructions, i + 1) \o <<instructions[i]>>

RECURSIVE FilterFrom(_, _)
FilterFrom(instructions, i) ==
    IF i > Len(instructions) THEN <<>>
    ELSE IF is_noop(instructions[i]) THEN FilterFrom(instructions, i + 1)
    ELSE <<instructions[i]>> \o FilterFrom(instructions, i + 1)

filter_noops(instructions) ==
    LET filtered == FilterFrom(instructions, 1) IN
    [filtered |-> filtered,
     noop_count |-> Cardinality({i \in DOMAIN instructions : is_noop(instructions[i])})]

\* the length validation of LLMSynthesizer.run: truncate to max_length, then
\* reject below min_length; skip means the iteration ends with `continue`
llm_validate(response, min_len, max_len) ==
    LET filtered == filter_noops(extract_instructions(response)).filtered IN
    IF filtered = <<>> THEN [skip |-> TRUE, cut |-> FALSE, lines |-> filtered]
    ELSE LET kept == IF Len(filtered) > max_len THEN Truncate(filtered, max_len)
                     ELSE filtered
         IN  [skip |-> Len(kept) < min_len, cut |-> Len(filtered) > max_len, lines |-> kept]

\* the mnemonic of an instruction line: its first whitespace-separated word
Mnemonic(line) == LET parts == SplitWS(line) IN IF parts = <<>> THEN <<>> ELSE parts[1]

(***************************************************************************)
(* The verifier's answer to a continuation step: which of the five marker  *)
(* strings its stdout contains, and its exit code.                         *)
(***************************************************************************)
\* "SUCCESS! Solution verified!", "No valid instructions found",
\* "Length constraint violated", "Some tests failed",
\* "SMT solver found counterexample"
Markers == {"success", "invalid", "length", "tests", "cex"}

\* fault: the "Some tests failed" marker is looked for before the success marker
continue_synthesis_tests_first(stdout, returncode) ==
    IF "tests" \in stdout THEN [success |-> FALSE, verdict |-> "TestsFailed"]
    ELSE IF "success" \in stdout THEN [success |-> TRUE, verdict |-> "Success"]
    ELSE [success |-> FALSE, verdict |-> "Unknown"]

\* fault: a nonzero exit code is looked at before the failure markers
continue_synthesis_rc_first(stdout, returncode) ==
    IF "success" \in stdout THEN [success |-> TRUE, verdict |-> "Success"]
    ELSE IF returncode # 0 THEN [success |-> FALSE, verdict |-> "OracleError"]
    ELSE IF "invalid" \in stdout THEN [success |-> FALSE, verdict |-> "InvalidCandidate"]
    ELSE IF "length" \in stdout THEN [success |-> FALSE, verdict |-> "LengthViolation"]
    ELSE IF "tests" \in stdout THEN [success |-> FALSE, verdict |-> "TestsFailed"]
    ELSE IF "cex" \in stdout THEN [success |-> FALSE, verdict |-> "CounterexampleFound"]
    ELSE [success |-> FALSE, verdict |-> "Unknown"]

\* continue_synthesis (auto_synthesis.py): (success, verdict) by marker precedence
continue_synthesis(stdout, returncode) ==
    IF "success" \in stdout THEN [success |-> TRUE, verdict |-> "Success"]
    ELSE IF "invalid" \in stdout THEN [success |-> FALSE, verdict |-> "InvalidCandidate"]
    ELSE IF "length" \in stdout THEN [success |-> FALSE, verdict |-> "LengthViolation"]
    ELSE IF "tests" \in stdout THEN [success |-> FALSE, verdict |-> "TestsFailed"]
    ELSE IF "cex" \in stdout THEN [success |-> FALSE, verdict |-> "CounterexampleFound"]
    ELSE IF returncode # 0 THEN [success |-> FALSE, verdict |-> "OracleError"]
    ELSE [success |-> FALSE, verdict |-> "Unknown"]

\* fault: the success marker only counts with exit code 0
llm_success_rc0(stdout, returncode) == "success" \in stdout /\ returncode = 0

\* LLMSynthesizer.run: if "SUCCESS! Solution verified!" in stdout
llm_success(stdout, returncode) == "success" \in stdout

(***************************************************************************)
(* The controllers.                                                        *)
(***************************************************************************)
VARIABLES
    ctl,             \* which controller runs: "auto", "gemini" or "azure" (api_type)
    max_iterations,  \* self.max_iterations
    min_length,      \* self.min_length
    max_length,      \* self.max_length
    task,            \* what the verifier's feedback describes in this session
    pc,              \* position of run()
    iteration,       \* the loop variable of run()
    feedback_file,   \* claude-feedback.txt
    proposal_file,   \* claude-proposal.txt
    solution_file,   \* solution.s
    state_file,      \* synthesis-state.rkt
    info,            \* the dict parse_feedback returned in this pass
    proposal,        \* the candidate of this pass (proposal / filtered_insts)
    llm_response,    \* the text the generative service returned in this pass
    stdout,          \* markers in the verifier's stdout of the last continuation
    returncode,      \* its exit code
    result,          \* what run() returned: "none", "True", "False", "raise"
    hist,            \* counts of the operations performed so far
    pass             \* what the current loop pass has done

config == <<ctl, max_iterations, min_length, max_length, task>>

files == <<feedback_file, proposal_file, solution_file, state_file>>

locals == <<info, proposal, llm_response, stdout, returncode>>

\* the state of a controller run
run_vars == <<config, files, locals, pc, iteration, result, hist, pass>>

\* State of the functions exercised on their own, outside a controller run.
VARIABLES
    flt,             \* filter_noops: the list given, the result, the result refiltered
    gem,             \* call_gemini: the retry loop of one call
    gen,             \* generate_proposal: calls made one after another
    par,             \* parse_feedback: one feedback text parsed twice
    ext,             \* extract_instructions: one response and what was extracted
    lop,             \* the for loop of run(): what each pass hands to its generator
    two,             \* two controller runs in one working directory
    prm,             \* build_gemini_prompt: one dict and iteration, and the prompt built
    flow             \* the control flow of run(), its service calls and its waits

fn_vars == <<flt, gem, gen, par, ext, lop, two, prm, flow>>

vars == <<run_vars, fn_vars>>

\* no function is being exercised on its own
NoFlt == [pc |-> "off", x |-> <<>>, once |-> <<>>, count |-> 0, twice |-> <<>>, recount |-> 0]

\* attempt: the loop variable; invocations: calls of generate_content so far;
\* err: the words of the last exception's message, response: what the last
\* invocation returned; slept: the seconds of the last wait, slept_before: of
\* the wait before it; ret: what call_gemini returned
NoGem == [pc |-> "off", attempt |-> 0, invocations |-> 0, err |-> {}, response |-> "None",
          slept |-> 0, slept_before |-> 0, ret |-> "none"]

NoInfo == [empty |-> TRUE, hasTarget |-> FALSE, target |-> <<>>, allowed |-> <<>>,
           min_length |-> 0, max_length |-> 0, iteration |-> 0]

\* info: the dict of the calls under observation; rng: the state of the
\* module-level generator of `random` (the value it was last seeded with, and
\* whether it has been drawn from since; seeded by the system at import);
\* drawn: what that generator made of an observed call, by the state it was in
\* when the call drew from it; first: the proposal the first observed call
\* returned; last: the latest observed call; between: a call with another
\* iteration came after it; again: the latest observed call was a second or
\* later one and followed a call with another iteration
NoGen == [pc |-> "off", info |-> NoInfo, rng |-> [seed |-> -1, used |-> 0],
          drawn |-> <<>>, first |-> <<>>, last |-> [i |-> 0, r |-> Nothing],
          between |-> FALSE, again |-> FALSE]

\* ctl: the controller whose parse_feedback is called; sections: the sections
\* of the feedback format the text holds; content: the text; min_length,
\* max_length: the configured bounds; once, twice: what the first and the
\* second call on the text returned
NoPar == [pc |-> "off", ctl |-> "auto", sections |-> {}, content |-> <<>>,
          min_length |-> 0, max_length |-> 0,
          once |-> [raised |-> FALSE, info |-> <<>>],
          twice |-> [raised |-> FALSE, info |-> <<>>]]

\* response: the lines of the text given; instructions: the list returned
NoExt == [pc |-> "off", response |-> <<>>, instructions |-> <<>>]

\* parsed: the iteration number parse_feedback read from the feedback text in
\* the latest pass; strategies, temperatures: what each pass so far selected
\* or passed to the service
NoLop == [pc |-> "off", ctl |-> "auto", max_iterations |-> 0, iteration |-> 0,
          parsed |-> 0, strategies |-> <<>>, temperatures |-> <<>>]

\* pc: the position of each of the two runs; feedback, proposal, state: the
\* run whose session the file of that name in the working directory belongs to
\* (0: no such file); parsed: the session of the feedback a run last parsed;
\* evaluated: the run that wrote the proposal the verifier last evaluated for a
\* run; lost: a clean-up removed a file of the other run's live session
NoTwo == [pc |-> <<"off", "off">>, feedback |-> 0, proposal |-> 0, state |-> 0,
          parsed |-> <<0, 0>>, evaluated |-> <<0, 0>>, lost |-> FALSE]

\* info, iteration: the arguments of the call; prompt: what it returned, as
\* lines
NoPrm == [pc |-> "off", info |-> <<>>, iteration |-> 0, prompt |-> <<>>]

\* pc: the position of run(); calls: the invocations of the generative
\* service so far; waited: time.sleep(self.delay) was executed since the
\* latest of them; waits: the executions of time.sleep(self.delay) so far
NoFlow == [pc |-> "off", ctl |-> "auto", max_iterations |-> 0, iteration |-> 0,
           calls |-> 0, waited |-> FALSE, waits |-> 0]

NoCalls ==
    /\ flt = NoFlt /\ gem = NoGem /\ gen = NoGen
    /\ par = NoPar /\ ext = NoExt /\ lop = NoLop /\ two = NoTwo
    /\ prm = NoPrm /\ flow = NoFlow

Terminal == {"Success", "BudgetExhausted", "Aborted", "Crashed"}

Absent == [exists |-> FALSE, stale |-> FALSE]

NoText == [exists |-> FALSE, stale |-> FALSE, content |-> <<>>]


\* parsed, gen, wrote, submitted: the pass has parsed the feedback, invoked its
\* generator, written the proposal file, invoked the continuation step;
\* validated: the generator's candidate came out of padding/truncation (heuristic)
\* or of filtering and the length checks (LLM); short: that candidate was empty
\* or shorter than min_length; cut: the LLM controller truncated the filtered
\* list to max_length; skipped: the pass ended with `continue`.  Before the
\* first pass, cleaned: start_synthesis found and removed files of a prior run
NoPass == [parsed |-> FALSE, gen |-> FALSE, validated |-> FALSE, short |-> FALSE,
           cut |-> FALSE, wrote |-> FALSE, submitted |-> FALSE, skipped |-> FALSE,
           cleaned |-> FALSE]

NoHist == [parse |-> 0, gen |-> 0, write |-> 0, submit |-> 0, skip |-> 0,
           success |-> FALSE, solutionRead |-> FALSE]

T_slt == Fmt3(W_slt, R_x1, R_x2, R_x3)

\* the tasks a session may be about: the target section (present or not) and
\* the allowed list the feedback text declares
Tasks ==
    {[hasTarget |-> TRUE, target |-> T_slt, allowed |-> <<W_sub, W_srli, W_xor, W_sltu>>],
     [hasTarget |-> TRUE, target |-> T_slt, allowed |-> <<W_sub, W_sltu>>],
     [hasTarget |-> FALSE, target |-> <<>>, allowed |-> <<W_sub, W_srli, W_xor, W_sltu>>]}

\* lines the generative service may answer with
L_sub == Fmt3(W_sub, R_x4, R_x2, R_x3)

L_noop == Fmt3(W_addi, R_x4, R_x4, <<"0">>)

L_mul == Fmt3(W_mul, R_x1, R_x4, R_x3)

ResponseLines == {L_sub, L_noop, L_mul, Fence}

\* the non-empty texts call_gemini / call_gpt may return, as lines
Responses == UNION {[1..n -> ResponseLines] : n \in 1..MaxRespLines}

Init ==
    /\ ctl \in {"auto", "gemini", "azure"}
    /\ max_iterations \in 1..MaxIter
    /\ min_length \in 0..MaxLen
    /\ max_length \in 0..MaxLen
    /\ task \in Tasks
    /\ pc = "Idle"
    /\ iteration = 0
    /\ \E st \in BOOLEAN :
          \* files a prior run may have left behind
          /\ feedback_file = [exists |-> st, stale |-> st, content |-> task]
          /\ proposal_file = [exists |-> st, stale |-> st, content |-> <<>>]
          /\ solution_file = [exists |-> st, stale |-> st]
          /\ state_file = [exists |-> st, stale |-> st]
    /\ info = NoInfo
    /\ proposal = <<>>
    /\ llm_response = <<>>
    /\ stdout = {}
    /\ returncode = 0
    /\ result = "none"
    /\ hist = NoHist
    /\ pass = NoPass
    /\ NoCalls

Return(state, value) == pc' = state /\ result' = value

\* fault: the clean-up loop of start_synthesis is left out
remove_keep(file, gone) == file

\* if os.path.exists(f): os.remove(f)
remove(file, gone) == gone

\* fault: the exit code of the session start is not looked at
start_synthesis_norc(rc, feedback) == feedback.exists

\* what start_synthesis returns: False on a nonzero exit code, else whether
\* the feedback file exists
start_synthesis(rc, feedback) == IF rc # 0 THEN FALSE ELSE feedback.exists

\* start_synthesis: remove the four session files, launch the verifier (which
\* may write the feedback and state files), and leave for the loop or return
Start ==
    /\ pc = "Idle"
    /\ \E rc \in {0, 1}, wrote \in BOOLEAN :
          /\ feedback_file' = IF wrote
                              THEN [exists |-> TRUE, stale |-> FALSE, content |-> task]
                              ELSE remove(feedback_file, NoText)
          /\ state_file' = IF wrote THEN [exists |-> TRUE, stale |-> FALSE]
                           ELSE remove(state_file, Absent)
          /\ returncode' = rc
          /\ IF start_synthesis(rc, feedback_file')
             THEN pc' = "Loop" /\ result' = result
             ELSE Return("Aborted", "False")
    /\ proposal_file' = remove(proposal_file, NoText)
    /\ solution_file' = remove(solution_file, Absent)
    /\ pass' = [pass EXCEPT !.cleaned = feedback_file.exists \/ proposal_file.exists
                                          \/ solution_file.exists \/ state_file.exists]
    /\ UNCHANGED <<fn_vars, config, info, proposal, llm_response, stdout, iteration, hist>>

\* fault: the loop stops one pass early, range(1, self.max_iterations)
HasNext_short == iteration < max_iterations - 1

\* fault: the loop runs one pass too many, range(1, self.max_iterations + 2)
HasNext_over == iteration <= max_iterations

\* for iteration in range(1, self.max_iterations + 1): another pass remains
HasNext == iteration < max_iterations

\* parse_feedback of AutoSynthesizer: {} without the file, else the dict
auto_parse_feedback(file) ==
    IF ~file.exists THEN NoInfo
    ELSE [empty |-> FALSE, hasTarget |-> file.content.hasTarget,
          target |-> file.content.target, allowed |-> file.content.allowed,
          min_length |-> min_length, max_length |-> max_length, iteration |-> 0]

\* parse_feedback of gemini_synthesis.py: {} without the file, else a dict that
\* always holds test_failures
llm_parse_feedback(file) ==
    IF ~file.exists THEN NoInfo
    ELSE [empty |-> FALSE, hasTarget |-> file.content.hasTarget,
          target |-> file.content.target, allowed |-> file.content.allowed,
          min_length |-> 0, max_length |-> 0, iteration |-> 0]

\* the head of a loop pass: next iteration, parse the feedback, abort on {}
NextIteration ==
    /\ pc = "Loop"
    /\ HasNext
    /\ iteration' = iteration + 1
    /\ LET parsed == IF ctl = "auto" THEN auto_parse_feedback(feedback_file)
                     ELSE llm_parse_feedback(feedback_file)
       IN  /\ info' = IF ctl = "auto" /\ ~parsed.empty
                      THEN [parsed EXCEPT !.iteration = iteration + 1]
                      ELSE parsed
           /\ IF parsed.empty THEN Return("Aborted", "False")
              ELSE pc' = "Generate" /\ result' = result
    /\ proposal' = <<>>
    /\ llm_response' = <<>>
    /\ stdout' = {}
    /\ returncode' = 0
    /\ hist' = [hist EXCEPT !.parse = @ + 1]
    /\ pass' = [NoPass EXCEPT !.parsed = TRUE]
    /\ UNCHANGED <<fn_vars, config, files>>

\* the loop ends without a verified solution
Exhaust ==
    /\ pc = "Loop"
    /\ ~HasNext
    /\ Return("BudgetExhausted", "False")
    /\ UNCHANGED <<fn_vars, config, files, locals, iteration, hist, pass>>

\* AutoSynthesizer.run: proposal = self.generate_proposal(info)
AutoGenerate ==
    /\ ctl = "auto"
    /\ pc = "Generate"
    /\ \E r \in generate_proposal(info) :
          /\ proposal' = r.lines
          /\ IF ~r.ok THEN Return("Crashed", "raise")
             ELSE IF r.lines = <<>> THEN Return("Aborted", "False")
             ELSE pc' = "Write" /\ result' = result
          /\ pass' = [pass EXCEPT !.gen = TRUE, !.validated = r.ok,
                                   !.short = r.ok /\ Len(r.lines) < Max(min_length, 1)]
    /\ hist' = [hist EXCEPT !.gen = @ + 1]
    /\ UNCHANGED <<fn_vars, config, files, iteration, info, llm_response, stdout, returncode>>

\* LLMSynthesizer.run: the service call returns text, or "" (call_gemini after a
\* failure), and run() returns False on an empty response
LLMCall ==
    /\ ctl \in {"gemini", "azure"}
    /\ pc = "Generate"
    /\ \E resp \in Responses \cup {<<>>} :
          /\ llm_response' = resp
          /\ IF resp = <<>> THEN Return("Aborted", "False")
             ELSE pc' = "Validate" /\ result' = result
    /\ hist' = [hist EXCEPT !.gen = @ + 1]
    /\ pass' = [pass EXCEPT !.gen = TRUE]
    /\ UNCHANGED <<fn_vars, config, files, iteration, info, proposal, stdout, returncode>>

\* call_gpt re-raises once its retries are used up: the exception leaves run()
LLMCallRaises ==
    /\ ctl = "azure"
    /\ pc = "Generate"
    /\ Return("Crashed", "raise")
    /\ hist' = [hist EXCEPT !.gen = @ + 1]
    /\ pass' = [pass EXCEPT !.gen = TRUE]
    /\ UNCHANGED <<fn_vars, config, files, iteration, locals>>

\* fault: the `continue` of a rejected candidate is left out, so the pass goes
\* on to the continuation step without having written a proposal
LLMValidate_no_continue ==
    /\ pc = "Validate"
    /\ \E v \in {llm_validate(llm_response, min_length, max_length)} :
          /\ proposal' = v.lines
          /\ pc' = IF v.skip THEN "Continue" ELSE "Write"
          /\ pass' = [pass EXCEPT !.validated = TRUE, !.skipped = v.skip, !.cut = v.cut,
                                   !.short = Len(v.lines) < Max(min_length, 1)]
    /\ UNCHANGED <<fn_vars, config, files, iteration, info, llm_response, stdout, returncode,
                   result, hist>>

\* LLMSynthesizer.run: extract, filter no-ops, truncate, check the minimum
LLMValidate ==
    /\ pc = "Validate"
    /\ \E v \in {llm_validate(llm_response, min_length, max_length)} :
          /\ proposal' = v.lines
          /\ IF v.skip
             THEN /\ pc' = "Loop"
                  /\ hist' = [hist EXCEPT !.skip = @ + 1]
             ELSE /\ pc' = "Write"
                  /\ hist' = hist
          /\ pass' = [pass EXCEPT !.validated = TRUE, !.skipped = v.skip, !.cut = v.cut,
                                   !.short = Len(v.lines) < Max(min_length, 1)]
    /\ UNCHANGED <<fn_vars, config, files, iteration, info, llm_response, stdout, returncode, result>>

\* write_proposal / the open(...).write of LLMSynthesizer.run.  The response
\* text is not read again in this pass and is cleared.
Write ==
    /\ pc = "Write"
    /\ IF ctl = "auto" /\ proposal = <<>>
       THEN /\ Return("Aborted", "False")
            /\ UNCHANGED <<proposal_file, llm_response, hist, pass>>
       ELSE /\ proposal_file' = [exists |-> TRUE, stale |-> FALSE, content |-> proposal]
            /\ llm_response' = <<>>
            /\ pc' = "Continue"
            /\ result' = result
            /\ hist' = [hist EXCEPT !.write = @ + 1]
            /\ pass' = [pass EXCEPT !.wrote = TRUE]
    /\ UNCHANGED <<fn_vars, config, feedback_file, solution_file, state_file, info, proposal,
                   stdout, returncode, iteration>>

\* whether the controller takes the verifier's answer for a verified solution
IsSuccess(out, rc) ==
    IF ctl = "auto" THEN continue_synthesis(out, rc).success ELSE llm_success(out, rc)

\* The continuation step and the reading of its verdict.  The verifier answers
\* with any set of markers and any exit code; on success it may write the
\* solution file, otherwise it rewrites the feedback file or leaves none.  The
\* candidate is now the content of the proposal file: the local that held it
\* is not read again in this pass and is cleared.
Continue ==
    /\ pc = "Continue"
    /\ \E out \in SUBSET Markers, rc \in {0, 1}, wrote \in BOOLEAN :
          /\ stdout' = out
          /\ returncode' = rc
          /\ IF "success" \in out
             THEN /\ solution_file' = IF wrote THEN [exists |-> TRUE, stale |-> FALSE]
                                      ELSE solution_file
                  /\ feedback_file' = feedback_file
             ELSE /\ solution_file' = solution_file
                  /\ feedback_file' = IF wrote
                                      THEN [exists |-> TRUE, stale |-> FALSE, content |-> task]
                                      ELSE NoText
          /\ IF IsSuccess(out, rc)
             THEN /\ Return("Success", "True")
                  /\ hist' = [hist EXCEPT !.submit = @ + 1,
                                          !.success = @ \/ ("success" \in out),
                                          !.solutionRead = solution_file'.exists]
             ELSE /\ pc' = "Loop"
                  /\ result' = result
                  /\ hist' = [hist EXCEPT !.submit = @ + 1,
                                          !.success = @ \/ ("success" \in out)]
    /\ proposal' = <<>>
    /\ pass' = [pass EXCEPT !.submitted = TRUE]
    /\ UNCHANGED <<fn_vars, config, proposal_file, state_file, iteration, info, llm_response>>

Next ==
    \/ Start
    \/ NextIteration
    \/ Exhaust
    \/ AutoGenerate
    \/ LLMCall
    \/ LLMCallRaises
    \/ LLMValidate
    \/ Write
    \/ Continue

Spec == Init /\ [][Next]_vars

(***************************************************************************)
(* filter_noops exercised on its own: a list of instruction lines is       *)
(* filtered, and the filtered list is filtered again.                      *)
(***************************************************************************)
\* a controller that is not running
Parked ==
    /\ ctl = "auto"
    /\ max_iterations = 1
    /\ min_length = 1
    /\ max_length = 1
    /\ task = [hasTarget |-> TRUE, target |-> T_slt, allowed |-> <<W_sub>>]
    /\ pc = "Idle"
    /\ iteration = 0
    /\ feedback_file = NoText
    /\ proposal_file = NoText
    /\ solution_file = Absent
    /\ state_file = Absent
    /\ info = NoInfo
    /\ proposal = <<>>
    /\ llm_response = <<>>
    /\ stdout = {}
    /\ returncode = 0
    /\ result = "none"
    /\ hist = NoHist
    /\ pass = NoPass

\* instruction lines given to the filter
FilterLines ==
    {L_sub, L_noop,
     Fmt3(W_addi, R_x4, R_x4, <<"1", "0">>),
     Fmt3(W_addi, R_x4, R_x4, <<"0", "5">>),
     Fmt3(W_add, R_x1, R_x0, R_x0),
     Fmt3(W_add, R_x1, R_x0, R_x2),
     Fmt3(W_andi, R_x4, R_x2, <<"-", "1">>),
     Fmt3(W_andi, R_x4, R_x2, <<"-", "1", "6">>),
     Fmt3(W_srli, R_x4, R_x2, <<"0">>),
     Fmt3(W_srli, R_x4, R_x2, <<"0", "1">>),
     Fmt3(W_ori, R_x4, R_x2, <<"0">>),
     Fmt3(W_xor, R_x1, R_x2, R_x0),
     Fmt3(W_or, R_x1, R_x2, R_x0),
     Fmt3(W_sll, R_x4, R_x2, R_x0),
     Fmt3(W_sll, R_x4, R_x0, R_x2)}

InitFilter ==
    /\ Parked
    /\ \E n \in 0..MaxLen : \E x \in [1..n -> FilterLines] :
          flt = [NoFlt EXCEPT !.pc = "given", !.x = x]
    /\ gem = NoGem /\ gen = NoGen
    /\ par = NoPar /\ ext = NoExt /\ lop = NoLop /\ two = NoTwo
    /\ prm = NoPrm /\ flow = NoFlow

\* filtered, noop_count = filter_noops(x)
FilterOnce ==
    /\ flt.pc = "given"
    /\ \E r \in {filter_noops(flt.x)} :
          flt' = [flt EXCEPT !.pc = "once", !.once = r.filtered, !.count = r.noop_count]
    /\ UNCHANGED <<run_vars, gem, gen, par, ext, lop, two, prm, flow>>

\* filter_noops applied to the filtered list
FilterTwice ==
    /\ flt.pc = "once"
    /\ \E r \in {filter_noops(flt.once)} :
          flt' = [flt EXCEPT !.pc = "twice", !.twice = r.filtered, !.recount = r.noop_count]
    /\ UNCHANGED <<run_vars, gem, gen, par, ext, lop, two, prm, flow>>

NextFilter ==
    \/ FilterOnce
    \/ FilterTwice

SpecFilter == InitFilter /\ [][NextFilter]_vars

(***************************************************************************)
(* call_gemini exercised on its own: the retry loop around the service.    *)
(***************************************************************************)
max_retries == 100

\* the exception messages the service fails with, each as the set of the
\* words of interest its lower-cased text contains
ErrorMessages == {{"resource", "exhausted"}, {"exceed"}, {"unavailable"}, {"token"},
                  {"rate"}, {"invalid"}, {}}

\* 'token' in err_msg or 'exceed' in err_msg or 'exhausted' in err_msg or
\* "unavailable" in err_msg or 'resource' in err_msg
IsLimitError(err_msg) ==
    err_msg \cap {"token", "exceed", "exhausted", "unavailable", "resource"} # {}

\* fault: the loop has no bound, while True
MoreAttempts_unbounded(attempt) == TRUE

\* for attempt in range(1, max_retries + 1): another attempt remains
MoreAttempts(attempt) == attempt < max_retries

InitGemini ==
    /\ Parked
    /\ flt = NoFlt /\ gen = NoGen
    /\ par = NoPar /\ ext = NoExt /\ lop = NoLop /\ two = NoTwo
    /\ prm = NoPrm /\ flow = NoFlow
    /\ gem = [NoGem EXCEPT !.pc = "attempt", !.attempt = 1]

\* response = model.generate_content(...): it returns (text, blank text, or a
\* response whose .text raises) or it raises an exception
GeminiInvoke ==
    /\ gem.pc = "attempt"
    /\ \/ \E r \in {"text", "blank", "notext"} :
             gem' = [gem EXCEPT !.pc = "return", !.invocations = @ + 1,
                                !.response = r, !.err = {}]
       \/ \E e \in ErrorMessages :
             gem' = [gem EXCEPT !.pc = IF IsLimitError(e) THEN "sleep" ELSE "return",
                                !.invocations = @ + 1, !.err = e]
    /\ UNCHANGED <<run_vars, flt, gen, par, ext, lop, two, prm, flow>>

\* time.sleep(5 * attempt); continue
GeminiSleep ==
    /\ gem.pc = "sleep"
    /\ gem' = [gem EXCEPT !.slept = 5 * gem.attempt,
                          !.slept_before = gem.slept,
                          !.pc = IF MoreAttempts(gem.attempt) THEN "attempt" ELSE "return",
                          !.attempt = IF MoreAttempts(gem.attempt) THEN @ + 1 ELSE @]
    /\ UNCHANGED <<run_vars, flt, gen, par, ext, lop, two, prm, flow>>

\* if response: return response.text.strip()  /  return ""
GeminiReturn ==
    /\ gem.pc = "return"
    /\ gem' = [gem EXCEPT !.pc = "returned",
                          !.ret = CASE gem.response = "None" -> ""
                                    [] gem.response = "text" -> "text"
                                    [] gem.response = "blank" -> ""
                                    [] OTHER -> "raise"]
    /\ UNCHANGED <<run_vars, flt, gen, par, ext, lop, two, prm, flow>>

NextGemini ==
    \/ GeminiInvoke
    \/ GeminiSleep
    \/ GeminiReturn

\* call_gemini runs on: each statement is followed by the next
SpecGemini == InitGemini /\ [][NextGemini]_vars /\ WF_vars(NextGemini)

(***************************************************************************)
(* generate_proposal exercised on its own: calls with one TaskSpec and one *)
(* iteration, with calls for other iterations in between, all drawing from *)
(* the one generator of the random module.  A generator in a given state   *)
(* answers a given series of requests in one way only; which way is not    *)
(* known, so the first call that draws from a state takes any outcome and  *)
(* a later one repeats it.  Of the calls in between only their effect on   *)
(* the generator is kept.                                                  *)
(***************************************************************************)
\* fault: the call does not reseed the generator
random_seed_none(rng, a) == rng

\* random.seed(a)
random_seed(rng, a) == [seed |-> a, used |-> 0]

\* the generator after the random.choice calls of one generate_proposal call
\* whose possible outcomes are outs
random_choices(rng, outs) == IF Cardinality(outs) > 1 THEN [rng EXCEPT !.used = @ + 1] ELSE rng

\* the iterations run() calls generate_proposal with
CallIterations == 1..MaxIter

InitGenerate ==
    /\ Parked
    /\ flt = NoFlt /\ gem = NoGem
    /\ par = NoPar /\ ext = NoExt /\ lop = NoLop /\ two = NoTwo
    /\ prm = NoPrm /\ flow = NoFlow
    /\ \E t \in {t \in Tasks : t.hasTarget}, mn \in 1..MaxLen, mx \in 1..MaxLen,
          i \in CallIterations :
          gen = [NoGen EXCEPT !.pc = "call",
                              !.info = [empty |-> FALSE, hasTarget |-> TRUE, target |-> t.target,
                                        allowed |-> t.allowed, min_length |-> mn,
                                        max_length |-> mx, iteration |-> i]]

\* proposal = generate_proposal(info), the call under observation
GenerateCall ==
    /\ gen.pc = "call"
    /\ LET i == gen.info.iteration
           seeded == random_seed(gen.rng, i * 137)
           key == [rng |-> seeded, i |-> i]
       IN  \E outs \in {generate_proposal(gen.info)} :
           \E r \in IF key \in DOMAIN gen.drawn THEN {gen.drawn[key]} ELSE outs :
              gen' = [gen EXCEPT
                        !.rng = random_choices(seeded, outs),
                        !.drawn = [k \in DOMAIN gen.drawn \cup {key} |->
                                      IF k = key THEN r ELSE gen.drawn[k]],
                        !.first = [j \in DOMAIN gen.first \cup {i} |->
                                      IF j \in DOMAIN gen.first THEN gen.first[j] ELSE r],
                        !.last = [i |-> i, r |-> r],
                        !.between = FALSE,
                        !.again = (i \in DOMAIN gen.first /\ gen.between)]
    /\ UNCHANGED <<run_vars, flt, gem, par, ext, lop, two, prm, flow>>

\* generate_proposal(info') for the same TaskSpec and another iteration
GenerateOther ==
    /\ gen.pc = "call"
    /\ \E i \in CallIterations \ {gen.info.iteration} :
          \E outs \in {generate_proposal([gen.info EXCEPT !.iteration = i])} :
             gen' = [gen EXCEPT
                       !.rng = random_choices(random_seed(gen.rng, i * 137), outs),
                       !.between = TRUE]
    /\ UNCHANGED <<run_vars, flt, gem, par, ext, lop, two, prm, flow>>

NextGenerate == GenerateCall \/ GenerateOther

SpecGenerate == InitGenerate /\ [][NextGenerate]_vars

(***************************************************************************)
(* extract_instructions exercised on its own: the lines of one response.   *)
(***************************************************************************)
\* lines a response may hold: instructions, one with a comment, a code fence,
\* prose within the instruction alphabet ("done"), prose with a character
\* outside it ("ok:"), and an instruction-shaped line with such characters
ExtractLines ==
    {L_sub, L_mul, Fence,
     L_sub \o <<" ", "#", " ", "t", "m", "p">>,
     <<"d", "o", "n", "e">>,
     <<"o", "k", ":">>,
     Fmt3(W_sub, R_x4, R_x2, <<"(", "x", "3", ")">>)}

InitExtract ==
    /\ Parked
    /\ flt = NoFlt /\ gem = NoGem /\ gen = NoGen
    /\ par = NoPar /\ lop = NoLop /\ two = NoTwo
    /\ prm = NoPrm /\ flow = NoFlow
    /\ \E n \in 1..MaxRespLines : \E r \in [1..n -> ExtractLines] :
          ext = [NoExt EXCEPT !.pc = "given", !.response = r]

\* instructions = extract_instructions(llm_response)
Extract ==
    /\ ext.pc = "given"
    /\ ext' = [ext EXCEPT !.pc = "done", !.instructions = extract_instructions(ext.response)]
    /\ UNCHANGED <<run_vars, flt, gem, gen, par, lop, two, prm, flow>>

SpecExtract == InitExtract /\ [][Extract]_vars

(***************************************************************************)
(* The for loop of run() followed through many passes, for what a pass     *)
(* derives from the loop counter alone: the strategy of the heuristic      *)
(* generator and the temperature of the service call.  No pass succeeds.   *)
(***************************************************************************)
\* the numbers a feedback text may hold after "Iteration " (0: none)
FeedbackIterations == {0, 3, 8}

\* fault: run() does not store its counter into the parsed dict
PassIteration_parsed(parsed, counter) == parsed

\* info = self.parse_feedback(); info['iteration'] = iteration
PassIteration(parsed, counter) == counter

\* fault: the cap is left out, 0.7 + (iteration - 1) * 0.1
temperature_uncapped(counter) == 7 + (counter - 1)

\* temperature = min(1.5, 0.7 + (iteration - 1) * 0.1), in tenths
temperature(counter) == Min(15, 7 + (counter - 1))

InitLoop ==
    /\ Parked
    /\ flt = NoFlt /\ gem = NoGem /\ gen = NoGen
    /\ par = NoPar /\ ext = NoExt /\ two = NoTwo
    /\ prm = NoPrm /\ flow = NoFlow
    /\ \E c \in {"auto", "gemini"}, n \in 1..MaxPasses :
          lop = [NoLop EXCEPT !.pc = "loop", !.ctl = c, !.max_iterations = n]

\* a pass of AutoSynthesizer.run up to the strategy selection in generate_proposal
AutoPass ==
    /\ lop.pc = "loop"
    /\ lop.ctl = "auto"
    /\ lop.iteration < lop.max_iterations
    /\ \E n \in FeedbackIterations :
          lop' = [lop EXCEPT
                    !.iteration = @ + 1,
                    !.parsed = n,
                    !.strategies =
                        Append(@, Strategy(PassIteration(n, lop.iteration + 1)))]
    /\ UNCHANGED <<run_vars, flt, gem, gen, par, ext, two, prm, flow>>

\* a pass of LLMSynthesizer.run up to the service call
LLMPass ==
    /\ lop.pc = "loop"
    /\ lop.ctl = "gemini"
    /\ lop.iteration < lop.max_iterations
    /\ lop' = [lop EXCEPT !.iteration = @ + 1,
                          !.temperatures = Append(@, temperature(lop.iteration + 1))]
    /\ UNCHANGED <<run_vars, flt, gem, gen, par, ext, two, prm, flow>>

\* the loop is over
LoopEnd ==
    /\ lop.pc = "loop"
    /\ lop.iteration >= lop.max_iterations
    /\ lop' = [lop EXCEPT !.pc = "end"]
    /\ UNCHANGED <<run_vars, flt, gem, gen, par, ext, two, prm, flow>>

NextLoop == AutoPass \/ LLMPass \/ LoopEnd

SpecLoop == InitLoop /\ [][NextLoop]_vars

(***************************************************************************)
(* parse_feedback of both controllers, on the text of the feedback file.   *)
(* The text is a sequence of elements: a label of the feedback format and  *)
(* a value stand as one element each; white space, digits and punctuation  *)
(* are single characters.                                                  *)
(***************************************************************************)
\* \s of the re module with the line end, and what str.strip() removes
WhiteCh == SpaceCh \cup {"\n"}

\* the least and the greatest of a set of positions, 0 for none
Least(S) == IF S = {} THEN 0 ELSE CHOOSE i \in S : \A j \in S : i <= j

Greatest(S) == IF S = {} THEN 0 ELSE CHOOSE i \in S : \A j \in S : i >= j

\* the element at position k, "" beyond the end of the text
At(s, k) == IF k \in 1..Len(s) THEN s[k] ELSE ""

\* the last position of the longest run of elements of cs that starts at q
\* (q - 1 for an empty run)
RunEnd(s, q, cs) ==
    LET stop == Least({i \in q..Len(s) : s[i] \notin cs})
    IN  IF stop = 0 THEN Max(Len(s), q - 1) ELSE stop - 1

\* the last position of the line that holds position g: what .+ matches from g
EndOfLine(s, g) == RunEnd(s, g, Range(s) \ {"\n"})

\* str.strip() on text of several lines
StripAll(s) ==
    LET ix == {i \in 1..Len(s) : s[i] \notin WhiteCh}
    IN  IF ix = {} THEN <<>> ELSE SubSeq(s, Least(ix), Greatest(ix))

\* s.split(c)
RECURSIVE SplitOn(_, _)
SplitOn(s, c) ==
    IF c \notin Range(s) THEN <<s>>
    ELSE <<Before(s, c)>> \o SplitOn(SubSeq(s, Len(Before(s, c)) + 2, Len(s)), c)

\* int() of a run of digits
RECURSIVE int(_)
int(ds) ==
    IF ds = <<>> THEN 0
    ELSE 10 * int(SubSeq(ds, 1, Len(ds) - 1))
         + (CHOOSE n \in 0..9 : Dec(n) = <<ds[Len(ds)]>>)

\* a match object (the position where the match ends, and its groups); None
NoMatch == [matched |-> FALSE, end |-> 0, groups |-> <<>>]

Match(e, gs) == [matched |-> TRUE, end |-> e, groups |-> gs]

\* fault: the assignment is made without the test
Matched_always(m) == TRUE

\* `if target_match:`, the test before each use of a match
Matched(m) == m.matched

\* info[key] = val
Put(d, key, val) == [k \in (DOMAIN d) \cup {key} |-> IF k = key THEN val ELSE d[k]]

\* `if m: info[key] = ... m.group(1) ...`; m.group on None raises
SetIf(acc, m, key, val) ==
    IF acc.raised \/ ~Matched(m) THEN acc
    ELSE IF ~m.matched THEN [acc EXCEPT !.raised = TRUE]
    ELSE [acc EXCEPT !.info = Put(@, key, val)]

\* re.search(label + r'\s*\n\s*(.+?)(?:\n|$)', s) of gemini_synthesis.py: after
\* the label white space with a line end in it, then the rest of the first
\* line with text; where only white space follows, a blank after a line end
\* is the group
llm_search(s, label) ==
    LET at(p) ==
            LET r == RunEnd(s, p + 1, WhiteCh) IN
            IF ~\E i \in (p + 1)..r : s[i] = "\n" THEN NoMatch
            ELSE IF r < Len(s)
            THEN Match(EndOfLine(s, r + 1), <<SubSeq(s, r + 1, EndOfLine(s, r + 1))>>)
            ELSE IF \E i, j \in (p + 1)..r : i < j /\ s[i] = "\n" /\ s[j] \in SpaceCh
            THEN Match(Len(s), << <<" ">> >>)
            ELSE NoMatch
        p0 == Least({p \in 1..Len(s) : s[p] = label /\ at(p).matched})
    IN  IF p0 = 0 THEN NoMatch ELSE at(p0)

\* re.search(label + r'\n\s+(.+)', s) of auto_synthesis.py: the line end
\* directly after the label, then at least one white space, then the rest of
\* the line
auto_search(s, label) ==
    LET at(p) ==
            LET r == RunEnd(s, p + 2, WhiteCh) IN
            IF At(s, p + 1) # "\n" \/ r < p + 2 THEN NoMatch
            ELSE IF r < Len(s)
            THEN Match(EndOfLine(s, r + 1), <<SubSeq(s, r + 1, EndOfLine(s, r + 1))>>)
            ELSE IF \E j \in (p + 3)..r : s[j] \in SpaceCh
            THEN Match(Len(s), << <<" ">> >>)
            ELSE NoMatch
        p0 == Least({p \in 1..Len(s) : s[p] = label /\ at(p).matched})
    IN  IF p0 = 0 THEN NoMatch ELSE at(p0)

\* re.search(r'Length: (\d+) to (\d+) instructions', s)
search_length(s) ==
    LET at(p) ==
            LET d1 == RunEnd(s, p + 1, DigitCh)
                d2 == RunEnd(s, d1 + 2, DigitCh)
            IN  IF /\ d1 >= p + 1 /\ At(s, d1 + 1) = " to "
                   /\ d2 >= d1 + 2 /\ At(s, d2 + 1) = " instructions"
                THEN Match(d2 + 1, <<SubSeq(s, p + 1, d1), SubSeq(s, d1 + 2, d2)>>)
                ELSE NoMatch
        p0 == Least({p \in 1..Len(s) : s[p] = "Length: " /\ at(p).matched})
    IN  IF p0 = 0 THEN NoMatch ELSE at(p0)

\* re.search(r'Live-out registers: \(([^\)]+)\)', s)
search_live_out(s) ==
    LET at(p) ==
            LET e == RunEnd(s, p + 1, Range(s) \ {")"})
            IN  IF e >= p + 1 /\ At(s, e + 1) = ")"
                THEN Match(e + 1, <<SubSeq(s, p + 1, e)>>)
                ELSE NoMatch
        p0 == Least({p \in 1..Len(s) : s[p] = "Live-out registers: (" /\ at(p).matched})
    IN  IF p0 = 0 THEN NoMatch ELSE at(p0)

\* re.search(r'Iteration (\d+)', s)
search_iteration(s) ==
    LET p0 == Least({p \in 1..Len(s) : s[p] = "Iteration " /\ At(s, p + 1) \in DigitCh})
    IN  IF p0 = 0 THEN NoMatch
        ELSE Match(RunEnd(s, p0 + 1, DigitCh), <<SubSeq(s, p0 + 1, RunEnd(s, p0 + 1, DigitCh))>>)

\* re.search(r'Your proposal:\s*\n((?:\s*.+\n)+)', s): after the label and
\* white space with a line end in it, everything up to the last line end that
\* closes a line with text
search_proposal(s) ==
    LET at(p) ==
            LET r == RunEnd(s, p + 1, WhiteCh)
                e == Greatest({k \in (p + 3)..Len(s) :
                                /\ s[k] = "\n" /\ s[k - 1] # "\n"
                                /\ \E n \in (p + 1)..Min(r, k - 2) : s[n] = "\n"})
            IN  IF e = 0 THEN NoMatch ELSE Match(e, <<SubSeq(s, p + 1, e)>>)
        p0 == Least({p \in 1..Len(s) : s[p] = "Your proposal:" /\ at(p).matched})
    IN  IF p0 = 0 THEN NoMatch ELSE at(p0)

\* one match of r'Test \d+: FAIL\s*\n\s*Input regs:\s*(.+?)\n\s*Expected x1:
\* \s*(.+?)\n\s*Got x1:\s*(.+?)(?:\n|$)' at position p
failure_block(s, p) ==
    LET d  == RunEnd(s, p + 1, DigitCh)
        r1 == RunEnd(s, d + 2, WhiteCh)
        a  == RunEnd(s, r1 + 2, WhiteCh)
        e1 == EndOfLine(s, a + 1)
        r2 == RunEnd(s, e1 + 1, WhiteCh)
        b  == RunEnd(s, r2 + 2, WhiteCh)
        e2 == EndOfLine(s, b + 1)
        r3 == RunEnd(s, e2 + 1, WhiteCh)
        c  == RunEnd(s, r3 + 2, WhiteCh)
        e3 == EndOfLine(s, c + 1)
    IN  IF /\ At(s, p) = "Test " /\ d >= p + 1 /\ At(s, d + 1) = ": FAIL"
           /\ \E i \in (d + 2)..r1 : s[i] = "\n"
           /\ At(s, r1 + 1) = "Input regs:" /\ e1 >= a + 1 /\ At(s, e1 + 1) = "\n"
           /\ At(s, r2 + 1) = "Expected x1:" /\ e2 >= b + 1 /\ At(s, e2 + 1) = "\n"
           /\ At(s, r3 + 1) = "Got x1:" /\ e3 >= c + 1
        THEN Match(e3, <<SubSeq(s, a + 1, e1), SubSeq(s, b + 1, e2), SubSeq(s, c + 1, e3)>>)
        ELSE NoMatch

\* the loop over re.finditer: the blocks from position q on, in order, each as
\* the dict of its three stripped groups
RECURSIVE finditer_failures(_, _)
finditer_failures(s, q) ==
    LET p0 == Least({p \in q..Len(s) : failure_block(s, p).matched}) IN
    IF p0 = 0 THEN <<>>
    ELSE LET m == failure_block(s, p0) IN
         <<[inputs |-> StripAll(m.groups[1]), expected |-> StripAll(m.groups[2]),
            got |-> StripAll(m.groups[3])]>> \o finditer_failures(s, m.end + 1)

\* re.findall(r'Input:.*?Expected:.*?Got:.*?Diff:', s, re.DOTALL)
RECURSIVE findall_failures(_)
findall_failures(s) ==
    LET from(label, q) == IF q = 0 THEN 0 ELSE Least({i \in q..Len(s) : s[i] = label})
        i == from("Input:", 1)
        e == from("Expected:", i)
        g == from("Got:", e)
        d == from("Diff:", g)
    IN  IF d = 0 THEN <<>>
        ELSE <<SubSeq(s, i, d)>> \o findall_failures(SubSeq(s, d + 1, Len(s)))

\* parse_feedback of gemini_synthesis.py on the text of an existing file
llm_parse_text(s) ==
    LET target == llm_search(s, "Target instruction(s) to synthesize:")
        allowed == llm_search(s, "Allowed instructions:")
        length == search_length(s)
        live == search_live_out(s)
        previous == search_proposal(s)
        i0 == [raised |-> FALSE, info |-> <<>>]
        i1 == SetIf(i0, target, "target", StripAll(target.groups[1]))
        i2 == SetIf(i1, allowed, "allowed",
                    LET xs == SplitOn(allowed.groups[1], ",")
                    IN  [k \in DOMAIN xs |-> StripAll(xs[k])])
        i3 == SetIf(i2, length, "min_length", int(length.groups[1]))
        i4 == SetIf(i3, length, "max_length", int(length.groups[2]))
        i5 == SetIf(i4, live, "live_out", StripAll(live.groups[1]))
        i6 == IF i5.raised THEN i5
              ELSE [i5 EXCEPT !.info = Put(@, "test_failures", finditer_failures(s, 1))]
    IN  SetIf(i6, previous, "previous_proposal", StripAll(previous.groups[1]))

\* parse_feedback of AutoSynthesizer on the text of an existing file
auto_parse_text(s, min, max) ==
    LET target == auto_search(s, "Target instruction(s) to synthesize:")
        allowed == auto_search(s, "Allowed instructions:")
        iter == search_iteration(s)
        i0 == [raised |-> FALSE,
               info |-> [target |-> "None", allowed |-> <<>>, min_length |-> min,
                         max_length |-> max, test_failures |-> <<>>, iteration |-> 0]]
        i1 == SetIf(i0, target, "target", StripAll(target.groups[1]))
        i2 == SetIf(i1, allowed, "allowed",
                    LET xs == SplitOn(allowed.groups[1], ",")
                    IN  [k \in DOMAIN xs |-> StripAll(xs[k])])
        \* content.split("Test failures:")[1].split("Your task:")[0]
        section == Before(Before(SubSeq(s, Least({i \in 1..Len(s) : s[i] = "Test failures:"}) + 1,
                                        Len(s)), "Test failures:"), "Your task:")
        i3 == IF i2.raised \/ "Test failures:" \notin Range(s) THEN i2
              ELSE [i2 EXCEPT !.info = Put(@, "test_failures", findall_failures(section))]
    IN  SetIf(i3, iter, "iteration", int(iter.groups[1]))

\* the sections of the feedback format, in the order of the text; with gap a
\* blank line follows each label line, with indent the value lines are indented
SectionNames == <<"iteration", "target", "allowed", "length", "live_out", "failures",
                  "test_failures", "proposal", "task">>

Section(name, gap, indent) ==
    LET g == IF gap THEN <<"\n">> ELSE <<>>
        t == IF indent THEN <<" ", " ">> ELSE <<>>
    IN  CASE name = "iteration" -> <<"Iteration ", "3", "\n">>
          [] name = "target" ->
                <<"Target instruction(s) to synthesize:", "\n">> \o g \o t
                \o <<"mul x1, x2, x3", "\n">>
          [] name = "allowed" ->
                <<"Allowed instructions:", "\n">> \o g \o t
                \o <<"sub", ",", " ", "sltu", "\n">>
          [] name = "length" ->
                <<"Length: ", "1", " to ", "1", "2", " instructions", "\n">>
          [] name = "live_out" -> <<"Live-out registers: (", "1", ")", "\n">>
          [] name = "failures" ->
                <<"Test ", "1", ": FAIL", "\n">> \o g
                \o t \o <<"Input regs:", " ", "x2=2 x3=3", "\n">>
                \o t \o <<"Expected x1:", " ", "6", "\n">>
                \o t \o <<"Got x1:", " ", "5", "\n">>
          [] name = "test_failures" ->
                <<"Test failures:", "\n">> \o g
                \o t \o <<"Input:", " ", "(2 3)", " ", "Expected:", " ", "6", " ",
                           "Got:", " ", "5", " ", "Diff:", " ", "3", "\n">>
          [] name = "proposal" ->
                <<"Your proposal:", "\n">> \o g \o t \o <<"sub x4, x2, x3", "\n">>
          [] OTHER -> <<"Your task:", "\n">> \o t \o <<"Propose a sequence.", "\n">>

\* the text that holds the sections of the set present
RECURSIVE FeedbackText(_, _, _, _)
FeedbackText(present, k, gap, indent) ==
    IF k > Len(SectionNames) THEN <<>>
    ELSE (IF SectionNames[k] \in present THEN Section(SectionNames[k], gap, indent) ELSE <<>>)
         \o FeedbackText(present, k + 1, gap, indent)

InitParse ==
    /\ Parked
    /\ flt = NoFlt /\ gem = NoGem /\ gen = NoGen
    /\ ext = NoExt /\ lop = NoLop /\ two = NoTwo
    /\ prm = NoPrm /\ flow = NoFlow
    /\ \E c \in {"auto", "gemini"}, present \in SUBSET Range(SectionNames),
          gap \in BOOLEAN, indent \in BOOLEAN, eol \in BOOLEAN, min \in 1..2 :
          LET text == FeedbackText(present, 1, gap, indent) IN
          par = [NoPar EXCEPT
                   !.pc = "text", !.ctl = c, !.sections = present,
                   !.content = IF eol \/ text = <<>> THEN text
                               ELSE SubSeq(text, 1, Len(text) - 1),
                   !.min_length = min, !.max_length = min + 1]

\* parse_feedback by the controller of the run
parse_text(c, s, min, max) ==
    IF c = "auto" THEN auto_parse_text(s, min, max) ELSE llm_parse_text(s)

\* the first call of parse_feedback on the text
ParseOnce ==
    /\ par.pc = "text"
    /\ par' = [par EXCEPT !.pc = "once",
                          !.once = parse_text(par.ctl, par.content, par.min_length, par.max_length)]
    /\ UNCHANGED <<run_vars, flt, gem, gen, ext, lop, two, prm, flow>>

\* the second call on the same text with the same configured bounds
ParseTwice ==
    /\ par.pc = "once"
    /\ par' = [par EXCEPT !.pc = "twice",
                          !.twice = parse_text(par.ctl, par.content, par.min_length, par.max_length)]
    /\ UNCHANGED <<run_vars, flt, gem, gen, ext, lop, two, prm, flow>>

NextParse == ParseOnce \/ ParseTwice

SpecParse == InitParse /\ [][NextParse]_vars

(***************************************************************************)
(* build_gemini_prompt (gemini_synthesis.py).  The prompt is a sequence of *)
(* lines, a line a sequence of elements; of each block of fixed text the   *)
(* first line stands for the block.                                        *)
(***************************************************************************)
\* info.get(key, default)
Get(d, key, default) == IF key \in DOMAIN d THEN d[key] ELSE default

\* sep.join(xs)
RECURSIVE Join(_, _)
Join(xs, sep) ==
    IF xs = <<>> THEN <<>>
    ELSE IF Len(xs) = 1 THEN xs[1]
    ELSE xs[1] \o sep \o Join(Tail(xs), sep)

\* whether int(t) returns: a sign and digits (ValueError otherwise)
IsIntText(t) ==
    LET ds == IF t # <<>> /\ t[1] = "-" THEN Tail(t) ELSE t
    IN  ds # <<>> /\ \A i \in DOMAIN ds : ds[i] \in DigitCh

\* int(t) of a signed run of digits
IntOf(t) == IF t[1] = "-" THEN 0 - int(Tail(t)) ELSE int(t)

Abs(n) == IF n < 0 THEN 0 - n ELSE n

build_gemini_prompt(d, counter) ==
    LET target == Get(d, "target", <<>>)
        allowed == Get(d, "allowed", <<>>)
        min_len == Get(d, "min_length", 4)
        max_len == Get(d, "max_length", 8)
        test_failures == Get(d, "test_failures", <<>>)
        previous_proposal == Get(d, "previous_proposal", <<>>)
        has(w) == ReSearch({Lit(w)}, Lower(target))
        head ==
            << <<"TARGET INSTRUCTION TO SYNTHESIZE:">>,
               target,
               <<"- You must use ONLY these allowed instructions: ">>
                   \o Join(allowed, <<",", " ">>),
               <<"- Your sequence must be between ">> \o Dec(min_len) \o <<" and ">>
                   \o Dec(max_len) \o <<" instructions long">>,
               <<"UNDERSTANDING THE TARGET:">> >>
        hint ==
            IF has(<<"m","u","l","h">>)
            THEN << <<"The 'mulh' instruction computes the HIGH 32 bits">> >>
            ELSE IF has(W_mul)
            THEN << <<"The 'mul' instruction computes the LOW 32 bits">> >>
            ELSE IF has(W_slt)
            THEN << <<"The 'slt' instruction performs SIGNED less-than comparison.">> >>
            ELSE IF has(W_and)
            THEN << <<"The 'and' instruction performs bitwise AND.">> >>
            ELSE IF has(W_or)
            THEN << <<"The 'or' instruction performs bitwise OR.">> >>
            ELSE IF has(W_xor)
            THEN << <<"The 'xor' instruction performs bitwise XOR.">> >>
            ELSE <<>>
        guidance ==
            IF counter > 1
            THEN << <<"=== ITERATION ">> \o Dec(counter) \o <<" - TRY A DIFFERENT APPROACH ===">>,
                    <<"This is attempt #">> \o Dec(counter)
                        \o <<". Your previous attempts did not work.">>,
                    <<"CRITICAL: You MUST try a significantly DIFFERENT algorithmic approach this time!">>,
                    CASE counter = 2 -> <<"For this iteration, try using sign extraction first (srai)">>
                      [] counter = 3 -> <<"For this iteration, try Karatsuba decomposition">>
                      [] counter = 4 -> <<"For this iteration, try a convolution approach">>
                      [] counter = 5 -> <<"For this iteration, try using XOR/AND combinations">>
                      [] OTHER -> <<"For this iteration, combine multiple techniques or try a novel approach.">> >>
            ELSE <<>>
        \* test_failures[:5]
        shown == SubSeq(test_failures, 1, Min(5, Len(test_failures)))
        \* the failures whose two int() calls return; for the others the
        \* except clause leaves the three flags as they are
        numeric == {k \in DOMAIN shown : IsIntText(shown[k].expected) /\ IsIntText(shown[k].got)}
        expected(k) == IntOf(shown[k].expected)
        got(k) == IntOf(shown[k].got)
        all_zero == \A k \in numeric : got(k) = 0
        all_wrong_sign == \A k \in numeric : (expected(k) < 0) # (got(k) < 0)
        \* diff > abs(expected) * 0.1
        off_by_small == \A k \in numeric :
                            ~(10 * Abs(expected(k) - got(k)) > Abs(expected(k)))
        failure_lines ==
            [j \in 1..(4 * Len(shown)) |->
                LET f == shown[((j - 1) \div 4) + 1] IN
                CASE (j - 1) % 4 = 0 -> <<"Test ">> \o Dec((j - 1) \div 4) \o <<":">>
                  [] (j - 1) % 4 = 1 -> <<"  Inputs: ">> \o f.inputs
                  [] (j - 1) % 4 = 2 -> <<"  Expected x1: ">> \o f.expected
                  [] OTHER -> <<"  Got x1: ">> \o f.got]
        report ==
            IF test_failures # <<>> /\ counter > 1
            THEN << <<"PREVIOUS PROPOSAL (iteration ">> \o Dec(counter - 1) \o <<"):">>,
                    previous_proposal,
                    <<"TEST FAILURES FROM YOUR PREVIOUS ATTEMPT:">> >>
                 \o failure_lines
                 \o << <<"DIAGNOSIS - ANALYZE YOUR ERROR PATTERN:">>,
                        IF all_zero THEN <<"Your result is always 0!">>
                        ELSE IF all_wrong_sign
                        THEN <<"Your results have the WRONG SIGN consistently!">>
                        ELSE IF off_by_small THEN <<"You're CLOSE!">>
                        ELSE <<"Results are completely wrong in magnitude.">>,
                        <<"IMPORTANT: This is iteration ">> \o Dec(counter)
                            \o <<". Analyze the errors above and fix the SPECIFIC issue!">> >>
            ELSE <<>>
    IN  head \o hint \o guidance \o report
        \o << <<"YOUR TASK:">>, <<"Now generate your instruction sequence:">> >>

\* test failures as parse_feedback stores them: got 0, got of the other sign,
\* got within a tenth, got far off, got not a number
FailurePool ==
    << [inputs |-> <<"x2=2 x3=3">>, expected |-> <<"6">>, got |-> <<"0">>],
       [inputs |-> <<"x2=2 x3=3">>, expected |-> <<"6">>, got |-> <<"-","5">>],
       [inputs |-> <<"x2=10 x3=10">>, expected |-> <<"1","0","0">>, got |-> <<"9","5">>],
       [inputs |-> <<"x2=2 x3=3">>, expected |-> <<"6">>, got |-> <<"6","0">>],
       [inputs |-> <<"x2=1 x3=1">>, expected |-> <<"1">>, got |-> <<"#","x","1">>] >>

\* the dicts parse_feedback may hand over: n failures taken from the pool,
\* all the same (step 0) or in rotation
InitPrompt ==
    /\ Parked
    /\ flt = NoFlt /\ gem = NoGem /\ gen = NoGen /\ par = NoPar
    /\ ext = NoExt /\ lop = NoLop /\ two = NoTwo /\ flow = NoFlow
    /\ \E counter \in 1..MaxPasses, n \in 0..MaxFailures, first \in DOMAIN FailurePool,
          step \in 0..1, previous \in BOOLEAN, t \in {T_slt, L_mul, <<>>} :
          LET fs == [k \in 1..n |->
                        FailurePool[((first - 1 + step * (k - 1)) % Len(FailurePool)) + 1]]
              d0 == [target |-> t, allowed |-> <<W_sub, W_sltu>>, test_failures |-> fs]
          IN  prm = [NoPrm EXCEPT
                       !.pc = "call", !.iteration = counter,
                       !.info = IF previous
                                THEN Put(d0, "previous_proposal", L_sub \o <<"\n">> \o L_mul)
                                ELSE d0]

BuildPrompt ==
    /\ prm.pc = "call"
    /\ prm' = [prm EXCEPT !.pc = "built",
                          !.prompt = build_gemini_prompt(prm.info, prm.iteration)]
    /\ UNCHANGED <<run_vars, flt, gem, gen, par, ext, lop, two, flow>>

SpecPrompt == InitPrompt /\ [][BuildPrompt]_vars

(***************************************************************************)
(* The control flow of run() of both controllers: every return, continue   *)
(* and wait of the loop, with the outcome of each call (start, parse,      *)
(* generator or service, validation, write, verifier) chosen freely.       *)
(***************************************************************************)
InitFlow ==
    /\ Parked
    /\ flt = NoFlt /\ gem = NoGem /\ gen = NoGen /\ par = NoPar
    /\ ext = NoExt /\ lop = NoLop /\ two = NoTwo /\ prm = NoPrm
    /\ \E c \in {"auto", "gemini", "azure"}, n \in 1..MaxPasses :
          flow = [NoFlow EXCEPT !.pc = "Idle", !.ctl = c, !.max_iterations = n]

\* if not self.start_synthesis(): return False
FlowStart ==
    /\ flow.pc = "Idle"
    /\ \E started \in BOOLEAN :
          flow' = [flow EXCEPT !.pc = IF started THEN "Loop" ELSE "Aborted"]
    /\ UNCHANGED <<run_vars, flt, gem, gen, par, ext, lop, two, prm>>

\* the head of the for loop and the parse: the next pass, return False on an
\* empty dict, or the end of the loop
FlowHead ==
    /\ flow.pc = "Loop"
    /\ IF flow.iteration < flow.max_iterations
       THEN \E parsed \in BOOLEAN :
               flow' = [flow EXCEPT !.iteration = @ + 1,
                                    !.pc = IF parsed THEN "Generate" ELSE "Aborted"]
       ELSE flow' = [flow EXCEPT !.pc = "BudgetExhausted"]
    /\ UNCHANGED <<run_vars, flt, gem, gen, par, ext, lop, two, prm>>

\* AutoSynthesizer.run: generate_proposal returns a proposal or an empty
\* list, or raises
FlowAutoGenerate ==
    /\ flow.pc = "Generate"
    /\ flow.ctl = "auto"
    /\ \E next \in {"Write", "Aborted", "Crashed"} : flow' = [flow EXCEPT !.pc = next]
    /\ UNCHANGED <<run_vars, flt, gem, gen, par, ext, lop, two, prm>>

\* LLMSynthesizer.run: call_gemini or call_gpt returns text or the empty
\* string; call_gpt may raise instead
FlowCall ==
    /\ flow.pc = "Generate"
    /\ flow.ctl # "auto"
    /\ \E next \in {"Validate", "Aborted"} \cup (IF flow.ctl = "azure" THEN {"Crashed"} ELSE {}) :
          flow' = [flow EXCEPT !.pc = next, !.calls = @ + 1, !.waited = FALSE]
    /\ UNCHANGED <<run_vars, flt, gem, gen, par, ext, lop, two, prm>>

\* LLMSynthesizer.run: nothing left after filtering or fewer than min_length
\* instructions: continue; else the proposal is written
FlowValidate ==
    /\ flow.pc = "Validate"
    /\ \E skip \in BOOLEAN :
          flow' = [flow EXCEPT !.pc = IF skip THEN "Loop" ELSE "Continue"]
    /\ UNCHANGED <<run_vars, flt, gem, gen, par, ext, lop, two, prm>>

\* AutoSynthesizer.run: if not self.write_proposal(proposal): return False
FlowWrite ==
    /\ flow.pc = "Write"
    /\ \E written \in BOOLEAN :
          flow' = [flow EXCEPT !.pc = IF written THEN "Continue" ELSE "Aborted"]
    /\ UNCHANGED <<run_vars, flt, gem, gen, par, ext, lop, two, prm>>

\* the continuation step: return True on success, else on to the end of the
\* loop body
FlowContinue ==
    /\ flow.pc = "Continue"
    /\ \E success \in BOOLEAN :
          flow' = [flow EXCEPT !.pc = IF success THEN "Success" ELSE "Delay"]
    /\ UNCHANGED <<run_vars, flt, gem, gen, par, ext, lop, two, prm>>

\* the end of the loop body.  LLMSynthesizer.run: if iteration <
\* self.max_iterations: time.sleep(self.delay); AutoSynthesizer.run sleeps
\* half a second, it has no configured delay
FlowDelay ==
    /\ flow.pc = "Delay"
    /\ flow' = IF flow.ctl # "auto" /\ flow.iteration < flow.max_iterations
               THEN [flow EXCEPT !.pc = "Loop", !.waited = TRUE, !.waits = @ + 1]
               ELSE [flow EXCEPT !.pc = "Loop"]
    /\ UNCHANGED <<run_vars, flt, gem, gen, par, ext, lop, two, prm>>

NextFlow ==
    \/ FlowStart
    \/ FlowHead
    \/ FlowAutoGenerate
    \/ FlowCall
    \/ FlowValidate
    \/ FlowWrite
    \/ FlowContinue
    \/ FlowDelay

\* run() is sequential code: every call returning or raising, its next step
\* is taken
SpecFlow == InitFlow /\ [][NextFlow]_vars /\ WF_vars(NextFlow)

\* every run ends: by a return of run() or by an exception that leaves it
FlowEnds == <>(flow.pc \in Terminal)

(***************************************************************************)
(* Two controller runs at once.  Both name their files claude-feedback.txt,*)
(* claude-proposal.txt, solution.s and synthesis-state.rkt, relative to    *)
(* the working directory, and both run the verifier in one fixed           *)
(* directory, so the two runs work on the same four files.  Their steps    *)
(* interleave in any order.                                                *)
(***************************************************************************)
Instances == {1, 2}

InitTwo ==
    /\ Parked
    /\ flt = NoFlt /\ gem = NoGem /\ gen = NoGen
    /\ par = NoPar /\ ext = NoExt /\ lop = NoLop
    /\ prm = NoPrm /\ flow = NoFlow
    /\ two = [NoTwo EXCEPT !.pc = <<"Idle", "Idle">>]

\* a run whose session is live
Live(i) == two.pc[i] \in {"Launch", "Loop", "Generate", "Continue"}

\* start_synthesis, the clean-up loop: the session files are removed
TwoClean(i) ==
    /\ two.pc[i] = "Idle"
    /\ two' = [two EXCEPT
                 !.pc[i] = "Launch",
                 !.feedback = 0, !.proposal = 0, !.state = 0,
                 !.lost = @ \/ \E j \in Instances \ {i} :
                                  Live(j) /\ j \in {two.feedback, two.proposal, two.state}]
    /\ UNCHANGED <<run_vars, flt, gem, gen, par, ext, lop, prm, flow>>

\* start_synthesis, the verifier's session start: it writes the state and the
\* feedback file of a new session
TwoLaunch(i) ==
    /\ two.pc[i] = "Launch"
    /\ two' = [two EXCEPT !.pc[i] = "Loop", !.feedback = i, !.state = i]
    /\ UNCHANGED <<run_vars, flt, gem, gen, par, ext, lop, prm, flow>>

\* a loop pass begins: parse_feedback reads the feedback file, or the run ends
\* (no feedback file, or the iterations are used up)
TwoParse(i) ==
    /\ two.pc[i] = "Loop"
    /\ \/ /\ two.feedback # 0
          /\ two' = [two EXCEPT !.pc[i] = "Generate", !.parsed[i] = two.feedback]
       \/ two' = [two EXCEPT !.pc[i] = "Done"]
    /\ UNCHANGED <<run_vars, flt, gem, gen, par, ext, lop, prm, flow>>

\* the candidate is written to the proposal file
TwoWrite(i) ==
    /\ two.pc[i] = "Generate"
    /\ two' = [two EXCEPT !.pc[i] = "Continue", !.proposal = i]
    /\ UNCHANGED <<run_vars, flt, gem, gen, par, ext, lop, prm, flow>>

\* the continuation step: the verifier evaluates the proposal file against the
\* session of the state file and rewrites that session's feedback; the run
\* goes on or ends with success
TwoContinue(i) ==
    /\ two.pc[i] = "Continue"
    /\ \E next \in {"Loop", "Done"} :
          two' = [two EXCEPT !.pc[i] = next,
                             !.evaluated[i] = two.proposal,
                             !.feedback = two.state]
    /\ UNCHANGED <<run_vars, flt, gem, gen, par, ext, lop, prm, flow>>

NextTwo ==
    \E i \in Instances :
        \/ TwoClean(i)
        \/ TwoLaunch(i)
        \/ TwoParse(i)
        \/ TwoWrite(i)
        \/ TwoContinue(i)

SpecTwo == InitTwo /\ [][NextTwo]_vars

(***************************************************************************)
(* Properties of the controllers.                                          *)
(***************************************************************************)

\* C1: when the session started, every pass that parsed the feedback also
\* wrote a candidate and no submission produced the success marker, a finished
\* run has made exactly max_iterations submissions, is in BudgetExhausted and
\* returns False -- in the heuristic and in the LLM controller.
C1_ExactBudget ==
    (pc \in Terminal /\ hist.parse >= 1 /\ hist.write = hist.parse /\ ~hist.success)
        => (pc = "BudgetExhausted" /\ hist.submit = max_iterations /\ result = "False")

C1_Witness ==
    /\ pc = "BudgetExhausted"
    /\ max_iterations = MaxIter
    /\ hist.write = MaxIter
    /\ hist.submit = MaxIter
    /\ ~hist.success
    /\ "tests" \in stdout

\* C2: the iteration counter grows by one with every loop pass, skipped passes
\* included, and never otherwise changes; it never exceeds max_iterations, and
\* neither the submissions nor the generator invocations exceed it.
C2_IterationBudget ==
    /\ [](/\ iteration <= max_iterations
          /\ iteration = hist.parse
          /\ hist.submit <= max_iterations
          /\ hist.gen <= max_iterations)
    /\ [][/\ iteration' >= iteration
          /\ (pass' # pass /\ pass'.parsed /\ ~pass'.gen) => iteration' > iteration]_vars

C2_Witness ==
    /\ iteration = max_iterations
    /\ iteration >= 2
    /\ hist.skip >= 1
    /\ hist.gen = iteration
    /\ pass.submitted

\* C3: a submission whose verifier output holds the success marker ends the
\* run in Success (run returns True), whatever other markers the output holds
\* and whatever the exit code.
C3_SuccessWins ==
    (pass.submitted /\ "success" \in stdout) => (pc = "Success" /\ result = "True")

C3_Witness ==
    /\ pc = "Success"
    /\ pass.submitted
    /\ {"success", "invalid", "tests"} \subseteq stdout
    /\ returncode # 0

\* C4: run returns True exactly when a submission of this run produced the
\* success marker; the solution file is read only on Success; and once the run
\* is in Success, BudgetExhausted or Aborted nothing is parsed, generated,
\* written or submitted any more.
C4_TerminalFinal ==
    /\ []((result = "True") <=> hist.success)
    /\ [](hist.solutionRead => (hist.success /\ pc = "Success"))
    /\ [][(pc \in Terminal) => (pc' = pc /\ hist' = hist /\ files' = files)]_vars

C4_Witness ==
    /\ pc = "Success"
    /\ result = "True"
    /\ hist.solutionRead
    /\ hist.submit >= 2

\* C5: with 1 <= min_length <= max_length the candidate in the proposal file of
\* a pass that wrote it has between min_length and max_length instructions.
C5_LengthWithinBounds ==
    (1 <= min_length /\ min_length <= max_length /\ pass.wrote)
        => (/\ min_length <= Len(proposal_file.content)
            /\ Len(proposal_file.content) <= max_length)

C5_Witness ==
    /\ 1 <= min_length
    /\ min_length <= max_length
    /\ ctl = "gemini"
    /\ pass.cut
    /\ pass.submitted
    /\ Len(proposal_file.content) = max_length

\* C6: with 1 <= min_length <= max_length every instruction of a written
\* candidate names a mnemonic of the allowed list the feedback declared.
C6_OnlyAllowedOps ==
    (1 <= min_length /\ min_length <= max_length /\ pass.wrote) =>
        \A i \in 1..Len(proposal_file.content) :
            Mnemonic(proposal_file.content[i]) \in Range(info.allowed)

\* C7: with 1 <= min_length <= max_length no instruction of a written
\* candidate is a no-op by is_noop.
C7_NoNoops ==
    (1 <= min_length /\ min_length <= max_length /\ pass.wrote) =>
        \A i \in 1..Len(proposal_file.content) : ~is_noop(proposal_file.content[i])

\* C8: a pass whose validated candidate is empty or shorter than min_length
\* writes and submits nothing and does not end the run.
C8_ShortIsSkipped ==
    pass.short => (~pass.wrote /\ ~pass.submitted /\ pc \notin Terminal)

\* C9: with 1 <= min_length <= max_length a pass whose feedback holds no
\* target section invokes neither the generator nor the verifier.
C9_NoTargetIsFatal ==
    (1 <= min_length /\ min_length <= max_length
        /\ pass.parsed /\ ~info.empty /\ ~info.hasTarget)
        => (~pass.gen /\ ~pass.submitted)

\* C10: with 1 <= min_length <= max_length, after a submission whose output
\* holds none of the five markers (exit code nonzero, or zero and so
\* unrecognized) the run is in Aborted.
C10_OracleErrorIsFatal ==
    (1 <= min_length /\ min_length <= max_length
        /\ pass.submitted /\ continue_synthesis(stdout, returncode).verdict
                           \in {"OracleError", "Unknown"})
        => pc = "Aborted"



\* C11: with 1 <= min_length <= max_length, a pass of the LLM controller whose
\* service call yielded no text (an empty response, or an exception once the
\* retries are used up) does not end the run.
C11_EmptyResponseIsSkipped ==
    (1 <= min_length /\ min_length <= max_length
        /\ ctl \in {"gemini", "azure"} /\ pass.gen /\ llm_response = <<>> /\ ~pass.validated)
        => pc \notin Terminal

\* C12: once start_synthesis has run and before the first loop pass, the run
\* is in the loop exactly when the session start exited with 0 and the feedback
\* file exists; otherwise it is Aborted, has returned False and has parsed,
\* generated, written and submitted nothing.  Nothing is done in Idle either.
C12_StartGate ==
    /\ pc = "Idle" => (hist = NoHist /\ pass = NoPass)
    /\ (pc # "Idle" /\ hist.parse = 0) =>
          IF returncode = 0 /\ feedback_file.exists
          THEN pc = "Loop" /\ result = "none"
          ELSE /\ pc = "Aborted"
               /\ result = "False"
               /\ hist = NoHist
               /\ ~pass.parsed /\ ~pass.gen /\ ~pass.wrote /\ ~pass.submitted
               /\ ~proposal_file.exists

C12_Witness ==
    /\ pc = "Aborted"
    /\ hist.parse = 0
    /\ returncode # 0
    /\ feedback_file.exists
    /\ result = "False"

\* C13: after start_synthesis none of the four session files is a left-over
\* of a prior run: a file that exists was written in this session, so the
\* feedback parsed and the solution read are this run's.
C13_NoStaleFiles ==
    pc # "Idle" =>
        /\ ~feedback_file.stale
        /\ ~proposal_file.stale
        /\ ~solution_file.stale
        /\ ~state_file.stale
        /\ hist.solutionRead => solution_file.exists

C13_Witness ==
    /\ pc = "Loop"
    /\ hist.parse = 0
    /\ pass.cleaned
    /\ feedback_file.exists
    /\ ~feedback_file.stale
    /\ ~proposal_file.exists
    /\ ~solution_file.exists

\* C15: with 1 <= min_length <= max_length, a target and a non-empty allowed
\* list, the proposal the heuristic generator returns in iteration i has
\* exactly clamp(min_length + i, min_length, max_length) instructions.
C15_ClampedLength ==
    (1 <= min_length /\ min_length <= max_length /\ ctl = "auto"
        /\ info.hasTarget /\ info.allowed # <<>> /\ pass.validated /\ ~pass.wrote)
        => Len(proposal) = Max(min_length, Min(min_length + info.iteration, max_length))

\* C19: when more than max_length instructions remain after no-op filtering,
\* the candidate written for submission is exactly the first max_length of
\* them, and with min_length <= max_length the pass is not skipped.
C19_TruncateToFirst ==
    /\ [][(pc = "Validate" /\ min_length <= max_length
             /\ Len(filter_noops(extract_instructions(llm_response)).filtered) > max_length)
          => (pc' = "Write" /\ pass'.cut /\ ~pass'.skipped)]_vars
    /\ [][(pc = "Write" /\ pass.cut)
          => (/\ pc' = "Continue"
              /\ Len(proposal_file'.content) = max_length
              /\ \A i \in 1..max_length :
                    proposal_file'.content[i]
                        = filter_noops(extract_instructions(llm_response)).filtered[i])]_vars

C19_Witness ==
    /\ pass.cut
    /\ pass.submitted
    /\ ~pass.skipped
    /\ max_length = 1
    /\ proposal_file.content = <<L_mul>>


\* C16: filtering the filtered list again returns the same list and counts no
\* no-op.
C16_FilterIdempotent ==
    flt.pc = "twice" => (flt.twice = flt.once /\ flt.recount = 0)

C16_Witness ==
    /\ flt.pc = "twice"
    /\ Len(flt.x) = 2
    /\ flt.count = 1
    /\ Len(flt.once) = 1
    /\ flt.twice = flt.once

\* C17: the filter removes an instruction exactly when it is one of the
\* defined shapes, decided on the whole last operand: a shift immediate 0, add
\* or addi with last operand 0 or x0, andi with -1, or/ori/xor/xori with last
\* operand 0 or x0, sll/srl/sra with last operand x0.
C17_ExactlyDefinedShapes ==
    LET Last(l) == LET parts == SplitWS(l) IN
                   IF Len(parts) = 4 THEN parts[4] ELSE <<>>
        DefinedNoop(l) ==
            \/ Mnemonic(l) \in {W_slli, W_srli, W_srai} /\ Last(l) = <<"0">>
            \/ Mnemonic(l) \in {W_add, W_addi} /\ Last(l) \in {<<"0">>, R_x0}
            \/ Mnemonic(l) = W_andi /\ Last(l) = <<"-", "1">>
            \/ Mnemonic(l) \in {W_or, W_ori, W_xor, W_xori} /\ Last(l) \in {<<"0">>, R_x0}
            \/ Mnemonic(l) \in {W_sll, W_srl, W_sra} /\ Last(l) = R_x0
        Kept(l) == ~DefinedNoop(l)
    IN  flt.pc \in {"once", "twice"} => flt.once = SelectSeq(flt.x, Kept)

\* C18: the filtered list is the subsequence, in the original order, of the
\* instructions is_noop does not classify as no-ops, and noop_count is the
\* number of instructions removed; 'addi x4, x4, 0' alone gives ([], 1).
C18_FilterIsSubsequence ==
    LET Kept(l) == ~is_noop(l) IN
    flt.pc \in {"once", "twice"} =>
        /\ flt.once = SelectSeq(flt.x, Kept)
        /\ flt.count = Len(flt.x) - Len(flt.once)
        /\ flt.x = <<L_noop>> => (flt.once = <<>> /\ flt.count = 1)

C18_Witness ==
    /\ flt.pc = "once"
    /\ flt.x = <<L_noop, L_sub>>
    /\ flt.once = <<L_sub>>
    /\ flt.count = 1


\* C20: one call of call_gemini invokes the service at most max_retries
\* times; a limit error is followed by a wait and, while attempts remain,
\* by the next attempt; after a response or another error the service is not
\* invoked again; when no attempt returned a response the call returns "";
\* and the call returns.
C20_BoundedRetries ==
    /\ [](gem.invocations <= max_retries /\ gem.attempt <= max_retries)
    /\ [][(gem.pc = "sleep" /\ gem.attempt < max_retries)
          => (gem'.pc = "attempt" /\ gem'.attempt = gem.attempt + 1 /\ gem'.slept > 0)]_vars
    /\ [][(gem.pc = "sleep" /\ gem.attempt = max_retries) => gem'.pc = "return"]_vars
    /\ [][gem.pc \in {"return", "returned"} => gem'.invocations = gem.invocations]_vars
    /\ []((gem.pc \in {"return", "returned"} /\ gem.response = "None")
             => (~IsLimitError(gem.err) \/ gem.invocations = max_retries))
    /\ []((gem.pc = "returned" /\ gem.response = "None") => gem.ret = "")
    /\ <>(gem.pc = "returned")

C20_Witness ==
    /\ gem.pc = "returned"
    /\ gem.invocations = max_retries
    /\ IsLimitError(gem.err)
    /\ gem.slept = 5 * max_retries
    /\ gem.ret = ""


\* C14: every call of generate_proposal with the same TaskSpec and the same
\* iteration returns the proposal the first such call returned, whatever
\* calls with other iterations were made in between.
C14_GenerateDeterministic ==
    gen.last.i \in DOMAIN gen.first => gen.last.r = gen.first[gen.last.i]

C14_Witness ==
    /\ gen.again
    /\ gen.last.r.ok
    /\ Len(gen.last.r.lines) = 2
    /\ gen.last.r = gen.first[gen.last.i]


\* C22: a loop pass is sequential: it generates only after parsing, validates
\* only after generating, writes the proposal file only after validating and
\* invokes the continuation step only after writing, once per written
\* proposal; a pass that wrote no proposal never invokes the continuation
\* step, whatever proposal file an earlier pass left; and the next pass begins
\* only when the pass before it has read its verdict or was skipped.
C22_SequentialPass ==
    /\ [](/\ pass.gen => pass.parsed
          /\ pass.validated => pass.gen
          /\ pass.wrote => pass.validated
          /\ pass.submitted => pass.wrote
          /\ pass.skipped => (~pass.wrote /\ ~pass.submitted)
          /\ pc = "Continue" => (pass.wrote /\ ~pass.submitted)
          /\ hist.submit <= hist.write
          /\ hist.write <= hist.submit + 1
          /\ hist.write = hist.submit + 1 <=> pc = "Continue")
    /\ [][(hist'.submit # hist.submit)
          => (pc = "Continue" /\ pass.wrote /\ ~pass.submitted /\ pass'.submitted
              /\ hist'.submit = hist.submit + 1
              /\ proposal_file.content = proposal)]_vars
    /\ [][(iteration' # iteration)
          => (pc = "Loop" /\ (hist.parse = 0 \/ pass.submitted \/ pass.skipped))]_vars

C22_Witness ==
    /\ pc = "Loop"
    /\ pass.skipped
    /\ ~pass.wrote
    /\ hist.submit = 1
    /\ iteration = 2
    /\ proposal_file.exists


\* C28: the heuristic controller classifies a verifier answer without the
\* success marker by the first marker present in the order invalid
\* instructions, length violation, tests failed, counterexample, whatever the
\* exit code; with none of them it is an operational error on a nonzero exit
\* code and an unknown result otherwise.  After any such answer the run is
\* back at the head of the loop, and begins the next pass while passes remain.
C28_MarkerPrecedence ==
    /\ []((ctl = "auto" /\ pass.submitted /\ "success" \notin stdout) =>
            LET v == continue_synthesis(stdout, returncode).verdict IN
            /\ ~continue_synthesis(stdout, returncode).success
            /\ v = "InvalidCandidate" <=> "invalid" \in stdout
            /\ v = "LengthViolation" <=> ("length" \in stdout /\ "invalid" \notin stdout)
            /\ v = "TestsFailed" <=>
                  ("tests" \in stdout /\ stdout \cap {"invalid", "length"} = {})
            /\ v = "CounterexampleFound" <=>
                  ("cex" \in stdout /\ stdout \cap {"invalid", "length", "tests"} = {})
            /\ v = "OracleError" <=> (stdout = {} /\ returncode # 0)
            /\ v = "Unknown" <=> (stdout = {} /\ returncode = 0)
            /\ pc \in {"Loop", "BudgetExhausted"}
            /\ pc = "BudgetExhausted" => iteration = max_iterations)
    /\ [][(pass.submitted /\ pc = "Loop" /\ iteration < max_iterations)
          => (iteration' = iteration + 1 /\ pass'.parsed /\ ~pass'.submitted)]_vars

C28_Witness ==
    /\ ctl = "auto"
    /\ pass.submitted
    /\ stdout = {"length", "tests", "cex"}
    /\ returncode # 0
    /\ continue_synthesis(stdout, returncode).verdict = "LengthViolation"
    /\ pc = "Loop"
    /\ iteration < max_iterations

\* C30: in a loop pass the structure the controller works with is the one
\* parse_feedback built from the feedback file at the head of the pass, with
\* no field changed since.
C30_InfoNotMutated ==
    (pc = "Generate" /\ pass.parsed) =>
        info = IF ctl = "auto" THEN auto_parse_feedback(feedback_file)
               ELSE llm_parse_feedback(feedback_file)

\* C24: with a non-empty allowed list and 1 <= min_length <= max_length,
\* generate_proposal returns a proposal for every iteration and never raises.
C24_GeneratorTotal ==
    (gen.first # <<>> /\ gen.info.allowed # <<>>
        /\ 1 <= gen.info.min_length /\ gen.info.min_length <= gen.info.max_length)
        => gen.last.r.ok

\* C26: the waits of call_gemini grow by a constant factor: from the third
\* wait on, a wait is to the wait before it at least what that one was to the
\* one before (w3 * w1 >= w2 * w2), and every wait is longer than the last.
C26_ExponentialBackoff ==
    [][(gem.pc = "sleep" /\ gem.slept_before > 0)
       => (gem'.slept > gem.slept
           /\ gem'.slept * gem.slept_before >= gem.slept * gem.slept)]_vars

\* C25: the instructions extracted are the instruction-shaped lines, with
\* comments stripped, that come before the first line -- shaped or not, code
\* fences aside -- that holds a character outside the instruction alphabet.
C25_HaltAtFirstBadLine ==
    LET Clean(l) == StripComments(Strip(l))
        IsFence(l) == StartsWith(Strip(l), Fence)
        Bad(l) == /\ ~IsFence(l)
                  /\ \E k \in DOMAIN Clean(l) : LowerOf(Clean(l)[k]) \notin InstructionAlphabet
        Shaped(l) == ~IsFence(l) /\ ReMatch(riscv_pattern, Clean(l))
        halts == {i \in DOMAIN ext.response : Bad(ext.response[i])}
        stop == IF halts = {} THEN Len(ext.response) + 1
                ELSE CHOOSE i \in halts : \A j \in halts : i <= j
        kept == SelectSeq(SubSeq(ext.response, 1, stop - 1), Shaped)
    IN  ext.pc = "done" => ext.instructions = [i \in DOMAIN kept |-> Clean(kept[i])]

\* C27: the temperature of the service call in iteration i, in tenths, is
\* min(15, 7 + (i - 1)): 7 in iteration 1, never falling from one iteration
\* to the next, rising as long as it is below 15, and never above 15.
C27_TemperatureSchedule ==
    LET t == lop.temperatures IN
    /\ \A i \in DOMAIN t :
          /\ t[i] = Min(15, 7 + (i - 1))
          /\ t[i] <= 15
          /\ i = 1 => t[i] = 7
          /\ i > 1 => (t[i - 1] <= t[i] /\ (t[i - 1] < 15 => t[i - 1] < t[i]))
    /\ lop.ctl = "gemini" => Len(t) = lop.iteration

C27_Witness ==
    /\ lop.pc = "end"
    /\ Len(lop.temperatures) >= 10
    /\ lop.temperatures[8] = 14
    /\ lop.temperatures[9] = 15
    /\ lop.temperatures[10] = 15

\* C29: the strategy of the pass with loop counter i is i mod 6, whatever
\* iteration number the feedback text holds; so the strategies of a run go
\* 1, 2, 3, 4, 5, 0, 1, ... and six passes in a row use six different ones.
C29_StrategyCycle ==
    LET st == lop.strategies IN
    /\ \A i \in DOMAIN st :
          /\ st[i] = i % 6
          /\ i > 1 => st[i] = (st[i - 1] + 1) % 6
          /\ i + 5 <= Len(st) => Cardinality({st[j] : j \in i..(i + 5)}) = 6
    /\ lop.ctl = "auto" => Len(st) = lop.iteration

C29_Witness ==
    /\ Len(lop.strategies) = 8
    /\ lop.parsed = 3
    /\ SubSeq(lop.strategies, 1, 7) = <<1, 2, 3, 4, 5, 0, 1>>

C23_SessionsNotShared ==
    /\ \A i \in Instances : two.parsed[i] \in {0, i} /\ two.evaluated[i] \in {0, i}
    /\ ~two.lost

\* C32: in the LLM controller the configured delay is executed between every
\* invocation of the generative service and the next one, also when the pass
\* of the earlier one was skipped, and it is not executed after the final
\* iteration.
C32_FixedPacing ==
    [][/\ (flow'.calls = flow.calls + 1 /\ flow.calls > 0) => flow.waited
       /\ (flow'.waits = flow.waits + 1) => (flow.iteration < flow.max_iterations)]_vars

\* C33: every run of either controller, for every max_iterations, eventually
\* ends in Success, BudgetExhausted or Aborted, whatever the verifier's
\* verdicts, the service's errors and the generators' outputs are.
C33_RunEndsInStatus == <>(flow.pc \in {"Success", "BudgetExhausted", "Aborted"})

\* C31: the prompt of iteration 1 holds no change-of-strategy instruction and
\* no failure report; the prompt of every later iteration holds the
\* instruction and a failure report with the previous proposal and the first
\* min(5, n) of the n parsed test failures, in their order.
C31_PromptReport ==
    prm.pc = "built" =>
        LET fs == prm.info["test_failures"]
            change == <<"CRITICAL: You MUST try a significantly DIFFERENT algorithmic approach this time!">>
            IsHeader(l) == l # <<>> /\ l[1] = "PREVIOUS PROPOSAL (iteration "
            Labelled(label) == LET Is(l) == l # <<>> /\ l[1] = label
                               IN  SelectSeq(prm.prompt, Is)
            inputs == Labelled("  Inputs: ")
            expected == Labelled("  Expected x1: ")
            got == Labelled("  Got x1: ")
            headers == {k \in DOMAIN prm.prompt : IsHeader(prm.prompt[k])}
        IN  IF prm.iteration = 1
            THEN /\ change \notin Range(prm.prompt)
                 /\ headers = {}
                 /\ inputs = <<>>
            ELSE /\ change \in Range(prm.prompt)
                 /\ \E k \in headers :
                       prm.prompt[k + 1] = Get(prm.info, "previous_proposal", <<>>)
                 /\ Len(inputs) = Min(5, Len(fs))
                 /\ Len(expected) = Len(inputs) /\ Len(got) = Len(inputs)
                 /\ \A k \in DOMAIN inputs :
                       /\ Tail(inputs[k]) = fs[k].inputs
                       /\ Tail(expected[k]) = fs[k].expected
                       /\ Tail(got[k]) = fs[k].got

====
